---- MODULE Spec2Model ----
(***************************************************************************)
(* Model of the harvesting-and-aggregation pipeline of                     *)
(* github-repo-analytics: the merge engine (services/supabase.js), the     *)
(* daily aggregator (utils/dataAggregator.js), the five harvesters         *)
(* (services/githubApi.js) and the fetch orchestrator (App.jsx).           *)
(*                                                                         *)
(* Calendar days are natural numbers (day 1, day 2, ...): the ISO date     *)
(* strings 'YYYY-MM-DD' the code compares with localeCompare order exactly *)
(* as the day numbers do.                                                  *)
(***************************************************************************)
EXTENDS Integers, Sequences, FiniteSets, TLC

VARIABLES
    \* ---- harness of the merge engine (pure function) ----
    mExisting,      \* existingMetrics argument of mergeDailyMetrics
    mNew,           \* newMetrics argument of mergeDailyMetrics
    mResult,        \* value returned by the last call
    mPrev,          \* value returned by the call before it
    mOp,            \* which call produced mResult
    \* ---- harness of the daily aggregator (pure function) ----
    aEnv,           \* [createdAt, now, tz]: repoInfo.createdAt, the clock, the zone
    aEvents,        \* [stargazers, forks, issues, prs, commits] of one run
    aDaily,         \* value returned by aggregateToDaily
    aPhase,         \* "collect" | "done"
    \* ---- the orchestrator, the harvesters and the store ----
    now,            \* the clock (Date.now(), new Date())
    tz,             \* zone of the JavaScript runtime, hours east of UTC
    store,          \* the repositories row and its daily_metrics rows
    phase,          \* position of fetchData: "idle" | "info" | "harvest"
    strategy,       \* entry point of the run: "full" | "resume" | "quick"
    resumeState,    \* the resumeState argument of fetchData
    currentFetchState, \* fetchData's currentFetchState, shared by the onSave calls
    results,        \* the harvesters' return values, by kind, as they resolve
    ui,             \* React state: repoInfo loaded, starsPaginationLimited
    runs,           \* runs started so far
    faults,         \* failures the environment has injected so far
    hist,           \* history of the run: the store when it started, how it ended
    \* ---- harness of the rate-limit policy (pure functions) ----
    pError,         \* the error a request was rejected with
    pHeaders,       \* the rate-limit headers (rateLimit object) of the response
    pClock,         \* Date.now() in milliseconds
    pOutcome,       \* what the harvester did with it: class, wait in ms
    \* ---- batches of repositories (BatchFetch, Refresh All) ----
    bMode,          \* "batch" | "refresh"
    bFails,         \* the repositories whose fetch fails
    bStatus,        \* by repository: "pending" | "fetching" | "done" | "error"
    bQueue,         \* repoQueue of handleRefreshAll
    bWorkers,       \* by worker of handleRefreshAll: the repository it holds
    bCompleted,     \* the completed counter of handleRefreshAll
    bPhase,         \* "off" | "running" | "complete"
    \* ---- harness of the monthly rollup (pure function) ----
    rDaily,         \* dailyMetrics argument of calculateMonthlyMetrics
    rZone,          \* zone of the JavaScript runtime, hours east of UTC
    rMonthly,       \* value returned by calculateMonthlyMetrics
    rPhase,         \* "off" | "input" | "done" | "saved"
    rPrior,         \* the monthly_metrics rows of the repository before the save
    rStored,        \* the monthly_metrics rows of the repository
    \* ---- one harvester, iteration by iteration ----
    hRun,           \* the harvester, the upstream it talks to, its arguments
    hSt,            \* the locals of the harvester
    hLast,          \* the last request: its outcome, the cursors before it,
                    \* and the parity of the number of iterations so far
    hPhase          \* "off" | "loop" | "returned"

mergeVars == <<mExisting, mNew, mResult, mPrev, mOp>>
aggVars == <<aEnv, aEvents, aDaily, aPhase>>
sysVars == <<now, tz, store, phase, strategy, resumeState, currentFetchState,
             results, ui, runs, faults, hist>>
polVars == <<pError, pHeaders, pClock, pOutcome>>
batchVars == <<bMode, bFails, bStatus, bQueue, bWorkers, bCompleted, bPhase>>
rollVars == <<rDaily, rZone, rMonthly, rPhase, rPrior, rStored>>
harvVars == <<hRun, hSt, hLast, hPhase>>
vars == <<mExisting, mNew, mResult, mPrev, mOp, aEnv, aEvents, aDaily, aPhase,
          now, tz, store, phase, strategy, resumeState, currentFetchState,
          results, ui, runs, faults, hist,
          pError, pHeaders, pClock, pOutcome,
          bMode, bFails, bStatus, bQueue, bWorkers, bCompleted, bPhase,
          rDaily, rZone, rMonthly, rPhase, rPrior, rStored,
          hRun, hSt, hLast, hPhase>>

(***************************************************************************)
(* Bounds of the model.                                                    *)
(***************************************************************************)
MaxDay == 3        \* calendar days 1..MaxDay
MaxCount == 2      \* largest cumulative counter of an input series
MaxLen == 2        \* most points of an input series of the merge harness
MaxEvents == 2     \* most raw events handed to the aggregator harness

Days == 1..MaxDay

Max(a, b) == IF a >= b THEN a ELSE b
Min(a, b) == IF a <= b THEN a ELSE b

RECURSIVE SumSeq(_)
SumSeq(s) == IF s = <<>> THEN 0 ELSE Head(s) + SumSeq(Tail(s))

(***************************************************************************)
(* DailyMetricPoint as the aggregator returns it and the store keeps it.   *)
(***************************************************************************)
CounterNames == {"totalStars", "totalForks", "totalContributors",
                 "totalIssuesOpened", "totalIssuesClosed",
                 "totalPRsOpened", "totalPRsClosed", "totalPRsMerged"}

DailyPoint(d, s, f, c, io, ic, po, pc, pm) ==
    [date |-> d, totalStars |-> s, totalForks |-> f, totalContributors |-> c,
     totalIssuesOpened |-> io, totalIssuesClosed |-> ic,
     totalPRsOpened |-> po, totalPRsClosed |-> pc, totalPRsMerged |-> pm]

(***************************************************************************)
(* A JavaScript Map keyed by date: insertion-ordered, set() on an existing *)
(* key keeps the key's position and replaces its value.                    *)
(***************************************************************************)
MapHas(map, d) == \E i \in 1..Len(map) : map[i].date = d

MapGet(map, d) == map[CHOOSE i \in 1..Len(map) : map[i].date = d]

MapSet(map, p) ==
    IF MapHas(map, p.date)
    THEN [i \in 1..Len(map) |-> IF map[i].date = p.date THEN p ELSE map[i]]
    ELSE Append(map, p)

\* Array.prototype.sort((a, b) => a.date.localeCompare(b.date)): insertion
\* sort, stable.
RECURSIVE InsertByDate(_, _)
InsertByDate(sorted, p) ==
    IF sorted = <<>> THEN <<p>>
    ELSE IF Head(sorted).date <= p.date
         THEN <<Head(sorted)>> \o InsertByDate(Tail(sorted), p)
         ELSE <<p>> \o sorted

UnsortedByDate(seq) == seq

RECURSIVE SortByDate(_)
SortByDate(seq) ==
    IF seq = <<>> THEN <<>>
    ELSE InsertByDate(SortByDate(SubSeq(seq, 1, Len(seq) - 1)), seq[Len(seq)])

(***************************************************************************)
(* mergeDailyMetrics, services/supabase.js 733-798.                        *)
(***************************************************************************)
\* lines 747-757: the value stored for a date both sides have
CombineSameDate(existing, m) ==
    [date |-> m.date,
     totalStars |-> existing.totalStars + m.totalStars,
     totalForks |-> existing.totalForks + m.totalForks,
     totalContributors |-> Max(existing.totalContributors, m.totalContributors),
     totalIssuesOpened |-> Max(existing.totalIssuesOpened, m.totalIssuesOpened),
     totalIssuesClosed |-> Max(existing.totalIssuesClosed, m.totalIssuesClosed),
     totalPRsOpened |-> Max(existing.totalPRsOpened, m.totalPRsOpened),
     totalPRsClosed |-> Max(existing.totalPRsClosed, m.totalPRsClosed),
     totalPRsMerged |-> Max(existing.totalPRsMerged, m.totalPRsMerged)]

\* lines 737-739
RECURSIVE AddExisting(_, _)
AddExisting(map, ms) ==
    IF ms = <<>> THEN map ELSE AddExisting(MapSet(map, Head(ms)), Tail(ms))

\* lines 743-761
RECURSIVE AddNew(_, _)
AddNew(map, ms) ==
    IF ms = <<>> THEN map
    ELSE LET m == Head(ms)
         IN AddNew(MapSet(map, IF MapHas(map, m.date)
                                THEN CombineSameDate(MapGet(map, m.date), m)
                                ELSE m),
                   Tail(ms))

\* lines 773-780: first pass, daily increments of stars and forks
StarsIncrement(sorted, i) ==
    IF i > 1 THEN Max(0, sorted[i].totalStars - sorted[i - 1].totalStars)
    ELSE sorted[i].totalStars

ForksIncrement(sorted, i) ==
    IF i > 1 THEN Max(0, sorted[i].totalForks - sorted[i - 1].totalForks)
    ELSE sorted[i].totalForks

\* lines 783-797: second pass, running totals
Reintegrate(sorted) ==
    [i \in 1..Len(sorted) |->
        [date |-> sorted[i].date,
         totalStars |-> SumSeq([j \in 1..i |-> StarsIncrement(sorted, j)]),
         totalForks |-> SumSeq([j \in 1..i |-> ForksIncrement(sorted, j)]),
         totalContributors |-> sorted[i].totalContributors,
         totalIssuesOpened |-> sorted[i].totalIssuesOpened,
         totalIssuesClosed |-> sorted[i].totalIssuesClosed,
         totalPRsOpened |-> sorted[i].totalPRsOpened,
         totalPRsClosed |-> sorted[i].totalPRsClosed,
         totalPRsMerged |-> sorted[i].totalPRsMerged]]

mergeDailyMetrics(existingMetrics, newMetrics) ==
    Reintegrate(SortByDate(AddNew(AddExisting(<<>>, existingMetrics), newMetrics)))

(***************************************************************************)
(* Input series of the merge harness: strictly ascending dates, every      *)
(* counter non-decreasing (what aggregateToDaily and the store produce).   *)
(* Two value sequences are drawn per series: s feeds the counters of what  *)
(* is opened or starred, f the forks and contributors, and what is closed  *)
(* or merged never exceeds what was opened.                                *)
(***************************************************************************)
InputPoint(d, s, f) == DailyPoint(d, s, f, f, s, Min(s, f), s, Min(s, f), Min(s, f))

NonDecreasing(q) == \A i \in 1..(Len(q) - 1) : q[i] <= q[i + 1]
Ascending(q) == \A i \in 1..(Len(q) - 1) : q[i] < q[i + 1]

InputSeries ==
    UNION { { [i \in 1..n |-> InputPoint(ds[i], ss[i], fs[i])] :
                ds \in { q \in [1..n -> Days] : Ascending(q) },
                ss \in { q \in [1..n -> 0..MaxCount] : NonDecreasing(q) },
                fs \in { q \in [1..n -> 0..MaxCount] : NonDecreasing(q) } } :
            n \in 0..MaxLen }

DatesOf(series) == { series[i].date : i \in 1..Len(series) }

SeriesNonDecreasing(series) ==
    \A i \in 1..(Len(series) - 1) : \A c \in CounterNames :
        series[i][c] <= series[i + 1][c]

NoFetchState ==
    [stars_cursor |-> 0, stars_limited |-> FALSE,
     forks_lastPage |-> 0, forks_limited |-> FALSE,
     prs_lastPage |-> 0, prs_limited |-> FALSE,
     issues_lastDate |-> 0, commits_lastDate |-> 0]

NoRepository ==
    [exists |-> FALSE, fetch_in_progress |-> FALSE, last_fetched |-> 0,
     stars_cursor |-> 0, stars_pagination_limited |-> FALSE,
     forks_last_page |-> 0, forks_pagination_limited |-> FALSE,
     prs_last_page |-> 0, prs_pagination_limited |-> FALSE,
     issues_last_date |-> 0, commits_last_date |-> 0,
     metrics |-> <<>>]

NoHistory ==
    [startStore |-> NoRepository, ended |-> "none", before |-> "none",
     forksCeiling |-> 0, sinceDate |-> 0]

SysIdle ==
    /\ now = 0
    /\ tz = 0
    /\ store = NoRepository
    /\ phase = "off"
    /\ strategy = "none"
    /\ resumeState = NoFetchState
    /\ currentFetchState = NoFetchState
    /\ results = << >>
    /\ ui = [loaded |-> FALSE, limited |-> FALSE]
    /\ runs = 0
    /\ faults = 0
    /\ hist = NoHistory

\* the policy harness and the batch harness when they are not in use
NoError == [status |-> 0, message |-> ""]
NoHeaders == [hasReset |-> FALSE, reset |-> 0, remaining |-> 0]
NoOutcome == [op |-> "none", class |-> "none", waited |-> FALSE, wait |-> 0]

PolIdle ==
    /\ pError = NoError
    /\ pHeaders = NoHeaders
    /\ pClock = 0
    /\ pOutcome = NoOutcome

BatchIdle ==
    /\ bMode = "none"
    /\ bFails = {}
    /\ bStatus = << >>
    /\ bQueue = << >>
    /\ bWorkers = << >>
    /\ bCompleted = 0
    /\ bPhase = "off"

RollIdle ==
    /\ rDaily = << >>
    /\ rZone = 0
    /\ rMonthly = << >>
    /\ rPhase = "off"
    /\ rPrior = << >>
    /\ rStored = << >>

HarvIdle ==
    /\ hRun = [kind |-> "none"]
    /\ hSt = [hasMore |-> FALSE]
    /\ hLast = [out |-> "none"]
    /\ hPhase = "off"

MergeIdle ==
    /\ mExisting = <<>>
    /\ mNew = <<>>
    /\ mResult = <<>>
    /\ mPrev = <<>>
    /\ mOp = "none"

AggIdle ==
    /\ aEnv = [createdAt |-> 0, now |-> 0, tz |-> 0]
    /\ aEvents = [stargazers |-> <<>>, forks |-> <<>>, issues |-> <<>>,
                  prs |-> <<>>, commits |-> <<>>]
    /\ aDaily = <<>>
    /\ aPhase = "idle"

MergeInit ==
    /\ mExisting \in InputSeries
    /\ mNew \in InputSeries
    /\ mResult = <<>>
    /\ mPrev = <<>>
    /\ mOp = "none"
    /\ AggIdle
    /\ SysIdle
    /\ PolIdle
    /\ BatchIdle
    /\ RollIdle
    /\ HarvIdle

\* mergeDailyMetrics(existing, new), as fetchData calls it (App.jsx 222)
MergeCall ==
    /\ mOp = "none"
    /\ mResult' = mergeDailyMetrics(mExisting, mNew)
    /\ mPrev' = mResult
    /\ mOp' = "merge"
    /\ UNCHANGED <<mExisting, mNew>>
    /\ UNCHANGED <<aggVars, sysVars, polVars, batchVars, rollVars, harvVars>>

\* the same new series merged into the previous result (a second resume)
MergeAgain ==
    /\ mOp = "merge"
    /\ mResult' = mergeDailyMetrics(mResult, mNew)
    /\ mPrev' = mResult
    /\ mOp' = "again"
    /\ UNCHANGED <<mExisting, mNew>>
    /\ UNCHANGED <<aggVars, sysVars, polVars, batchVars, rollVars, harvVars>>

\* the call with the arguments exchanged
MergeSwapped ==
    /\ mOp = "merge"
    /\ mResult' = mergeDailyMetrics(mNew, mExisting)
    /\ mPrev' = mResult
    /\ mOp' = "swapped"
    /\ UNCHANGED <<mExisting, mNew>>
    /\ UNCHANGED <<aggVars, sysVars, polVars, batchVars, rollVars, harvVars>>

\* a series merged with itself
MergeSelf ==
    /\ mOp = "none"
    /\ mResult' = mergeDailyMetrics(mExisting, mExisting)
    /\ mPrev' = mResult
    /\ mOp' = "self"
    /\ UNCHANGED <<mExisting, mNew>>
    /\ UNCHANGED <<aggVars, sysVars, polVars, batchVars, rollVars, harvVars>>

MergeNext == MergeCall \/ MergeAgain \/ MergeSwapped \/ MergeSelf

SpecMerge == MergeInit /\ [][MergeNext]_vars

DisjointDates == DatesOf(mExisting) \cap DatesOf(mNew) = {}

\* C2: mergeDailyMetrics is idempotent: merge(A, A) equals A on every date
\* and every counter.
C2_MergeIdempotent == (mOp = "self") => (mResult = mExisting)

\* C3: merging the same new series a second time changes no cumulative
\* total: merge(merge(A, B), B) = merge(A, B).
C3_RemergeChangesNothing == (mOp = "again") => (mResult = mPrev)

C5_MergeNonDecreasing == (mOp = "merge") => SeriesNonDecreasing(mResult)

(***************************************************************************)
(* Time.  A timestamp is a number of hours since 00:00 UTC of day 0; 0     *)
(* stands for null (no event is that old).  Date.prototype.toISOString()   *)
(* .split('T')[0] and the split of an upstream ISO string give the UTC     *)
(* calendar day; Date.prototype.setHours(0, 0, 0, 0) moves to midnight of  *)
(* the LOCAL calendar day, `zone` hours east of UTC.  Daylight saving changes  *)
(* of the offset are not modelled: setDate(getDate() + 1) adds 24 hours.   *)
(***************************************************************************)
HoursPerDay == 24

UtcDate(t) == t \div HoursPerDay

At(d, h) == d * HoursPerDay + h

LocalDate(t, zone) == (t + zone) \div HoursPerDay

LocalMidnight(t, zone) == ((t + zone) \div HoursPerDay) * HoursPerDay - zone

(***************************************************************************)
(* aggregateToDaily, utils/dataAggregator.js 1-130.                        *)
(***************************************************************************)
\* lines 9-26: the keys of dayMap, in insertion order
RECURSIVE DayKeys(_, _)
DayKeys(currentDate, endDate) ==
    IF currentDate <= endDate
    THEN <<UtcDate(currentDate)>> \o DayKeys(currentDate + HoursPerDay, endDate)
    ELSE <<>>

SeqToSet(q) == { q[i] : i \in 1..Len(q) }

\* number of events of a list whose time field falls on day d (lines 29-79;
\* a null time is never a key of dayMap)
CountOn(events, field, d) ==
    Cardinality({ i \in 1..Len(events) :
                    events[i][field] # 0 /\ UtcDate(events[i][field]) = d })

\* lines 82-90: the authors added to newContributors of day d.  The commits
\* are visited in array order; an author is added on the day of the first
\* visited commit of theirs whose day is a key of dayMap.
FirstSeenAt(commits, keys, i) ==
    /\ commits[i].author # ""
    /\ UtcDate(commits[i].date) \in keys
    /\ \A j \in 1..(i - 1) :
          ~(commits[j].author = commits[i].author /\ UtcDate(commits[j].date) \in keys)

NewContributors(commits, keys, d) ==
    { commits[i].author : i \in { j \in 1..Len(commits) :
                                    FirstSeenAt(commits, keys, j) /\ UtcDate(commits[j].date) = d } }

\* a variant of the bucket in which a merged pull request is not also closed
DayBucketMergedNotClosed(d, keys, stargazers, forks, issues, prs, commits) ==
    [date |-> d,
     starsAdded |-> CountOn(stargazers, "starredAt", d),
     forksAdded |-> CountOn(forks, "createdAt", d),
     issuesOpened |-> CountOn(issues, "createdAt", d),
     issuesClosed |-> CountOn(issues, "closedAt", d),
     prsOpened |-> CountOn(prs, "createdAt", d),
     prsClosed |-> CountOn(SelectSeq(prs, LAMBDA pr : pr.mergedAt = 0), "closedAt", d),
     prsMerged |-> CountOn(prs, "mergedAt", d),
     newContributors |-> NewContributors(commits, keys, d)]

\* one bucket of dayMap after all events are distributed
DayBucket(d, keys, stargazers, forks, issues, prs, commits) ==
    [date |-> d,
     starsAdded |-> CountOn(stargazers, "starredAt", d),
     forksAdded |-> CountOn(forks, "createdAt", d),
     issuesOpened |-> CountOn(issues, "createdAt", d),
     issuesClosed |-> CountOn(issues, "closedAt", d),
     prsOpened |-> CountOn(prs, "createdAt", d),
     prsClosed |-> CountOn(prs, "closedAt", d),
     prsMerged |-> CountOn(prs, "mergedAt", d),
     newContributors |-> NewContributors(commits, keys, d)]

\* a variant of the running totals in which what is open is what was opened
AccumulateOpenIsOpened(sortedDays) ==
    [i \in 1..Len(sortedDays) |->
        [date |-> sortedDays[i].date,
         totalStars |-> SumSeq([j \in 1..i |-> sortedDays[j].starsAdded]),
         totalForks |-> SumSeq([j \in 1..i |-> sortedDays[j].forksAdded]),
         totalContributors |->
             SumSeq([j \in 1..i |-> Cardinality(sortedDays[j].newContributors)]),
         totalIssuesOpened |-> SumSeq([j \in 1..i |-> sortedDays[j].issuesOpened]),
         totalIssuesClosed |-> SumSeq([j \in 1..i |-> sortedDays[j].issuesClosed]),
         openIssues |-> SumSeq([j \in 1..i |-> sortedDays[j].issuesOpened]),
         totalPRsOpened |-> SumSeq([j \in 1..i |-> sortedDays[j].prsOpened]),
         totalPRsClosed |-> SumSeq([j \in 1..i |-> sortedDays[j].prsClosed]),
         totalPRsMerged |-> SumSeq([j \in 1..i |-> sortedDays[j].prsMerged]),
         openPRs |-> SumSeq([j \in 1..i |-> sortedDays[j].prsOpened])]]

\* lines 97-129: running totals over the sorted buckets
Accumulate(sortedDays) ==
    [i \in 1..Len(sortedDays) |->
        LET Total(f) == SumSeq([j \in 1..i |-> sortedDays[j][f]])
            contributors == SumSeq([j \in 1..i |-> Cardinality(sortedDays[j].newContributors)])
        IN [date |-> sortedDays[i].date,
            totalStars |-> Total("starsAdded"),
            totalForks |-> Total("forksAdded"),
            totalContributors |-> contributors,
            totalIssuesOpened |-> Total("issuesOpened"),
            totalIssuesClosed |-> Total("issuesClosed"),
            openIssues |-> Total("issuesOpened") - Total("issuesClosed"),
            totalPRsOpened |-> Total("prsOpened"),
            totalPRsClosed |-> Total("prsClosed"),
            totalPRsMerged |-> Total("prsMerged"),
            openPRs |-> Total("prsOpened") - Total("prsClosed")]]

\* endDate is new Date(), the clock; zone is the zone of the JavaScript runtime
aggregateToDaily(createdAt, endDate, zone, stargazers, forks, issues, prs, commits) ==
    LET keySeq == DayKeys(LocalMidnight(createdAt, zone), endDate)
        keys == SeqToSet(keySeq)
        dayMap == [i \in 1..Len(keySeq) |->
                     DayBucket(keySeq[i], keys, stargazers, forks, issues, prs, commits)]
    IN Accumulate(SortByDate(dayMap))

(***************************************************************************)
(* Harness of the aggregator: the repository, the clock and the zone are   *)
(* drawn at the start, the events of the run are added one by one, then    *)
(* aggregateToDaily is applied.                                            *)
(***************************************************************************)
TimeZones == {0 - 5, 0, 2}         \* hours east of UTC
ClockHours == {1, 23}              \* hours of day of createdAt and of now
EventTimes == { At(d, 12) : d \in 0..MaxDay }
Authors == {"ann", "bob"}

AggInit ==
    /\ MergeIdle
    /\ SysIdle
    /\ PolIdle
    /\ BatchIdle
    /\ RollIdle
    /\ HarvIdle
    /\ \E cd \in 1..2, nd \in Days, ch \in ClockHours, nh \in ClockHours, z \in TimeZones :
          /\ At(cd, ch) <= At(nd, nh)
          /\ aEnv = [createdAt |-> At(cd, ch), now |-> At(nd, nh), tz |-> z]
    /\ aEvents = [stargazers |-> <<>>, forks |-> <<>>, issues |-> <<>>,
                  prs |-> <<>>, commits |-> <<>>]
    /\ aDaily = <<>>
    /\ aPhase = "collect"

EventCount ==
    Len(aEvents.stargazers) + Len(aEvents.forks) + Len(aEvents.issues)
        + Len(aEvents.prs) + Len(aEvents.commits)

AddEvent(kind, e) ==
    /\ aPhase = "collect"
    /\ EventCount < MaxEvents
    /\ aEvents' = [aEvents EXCEPT ![kind] = Append(@, e)]
    /\ UNCHANGED <<aEnv, aDaily, aPhase>>
    /\ UNCHANGED <<mergeVars, sysVars, polVars, batchVars, rollVars, harvVars>>

AddStargazer == \E t \in EventTimes : AddEvent("stargazers", [starredAt |-> t])

AddFork == \E t \in EventTimes : AddEvent("forks", [createdAt |-> t])

AddIssue ==
    \E t \in EventTimes, c \in EventTimes \cup {0} :
        /\ c = 0 \/ c >= t
        /\ AddEvent("issues", [createdAt |-> t, closedAt |-> c])

\* a merged pull request is closed at the time it is merged
AddPullRequest ==
    \E t \in EventTimes, c \in EventTimes \cup {0}, merged \in BOOLEAN :
        /\ c = 0 \/ c >= t
        /\ merged => c # 0
        /\ AddEvent("prs", [createdAt |-> t, closedAt |-> c,
                            mergedAt |-> IF merged THEN c ELSE 0])

AddCommit ==
    \E t \in EventTimes, a \in Authors \cup {""} :
        AddEvent("commits", [author |-> a, date |-> t])

Aggregate ==
    /\ aPhase = "collect"
    /\ aDaily' = aggregateToDaily(aEnv.createdAt, aEnv.now, aEnv.tz,
                                  aEvents.stargazers, aEvents.forks, aEvents.issues,
                                  aEvents.prs, aEvents.commits)
    /\ aPhase' = "done"
    /\ UNCHANGED <<aEnv, aEvents>>
    /\ UNCHANGED <<mergeVars, sysVars, polVars, batchVars, rollVars, harvVars>>

AggNext ==
    \/ AddStargazer
    \/ AddFork
    \/ AddIssue
    \/ AddPullRequest
    \/ AddCommit
    \/ Aggregate

SpecAgg == AggInit /\ [][AggNext]_vars

\* the series has exactly the days first..last, one point each, ascending
DenseFrom(series, first, last) ==
    /\ Len(series) = last - first + 1
    /\ \A i \in 1..Len(series) : series[i].date = first + i - 1

\* C6: aggregateToDaily returns exactly one point per calendar day from the
\* repository creation date to the as-of date, ascending, none missing or
\* repeated, and every cumulative counter is non-decreasing day over day.
\* The calendar days are read as UTC days or as days of the local zone,
\* whichever the output matches.
C6_DenseAndMonotone ==
    (aPhase = "done") =>
        /\ \/ DenseFrom(aDaily, UtcDate(aEnv.createdAt), UtcDate(aEnv.now))
           \/ DenseFrom(aDaily, LocalDate(aEnv.createdAt, aEnv.tz),
                                LocalDate(aEnv.now, aEnv.tz))
        /\ SeriesNonDecreasing(aDaily)

(***************************************************************************)
(* The upstream API (services/githubApi.js).  The page size, the batch     *)
(* width and the save intervals are scaled down from the values of the     *)
(* source (100 items per page, 5 pages per batch, a save every 500 or 1000 *)
(* items) so that several pages, batches and saves occur on collections of *)
(* a handful of items.  The save interval of the stars harvester spans     *)
(* several of its single-page requests, as in the source (5 pages).        *)
(***************************************************************************)
perPage == 2                  \* githubApi.js: perPage = 100, first: 100
PARALLEL_REQUESTS == 2        \* githubApi.js: PARALLEL_REQUESTS = 5
SAVE_INTERVAL_STARS == 4      \* fetchAllStargazersGraphQL: SAVE_INTERVAL = 500
SAVE_INTERVAL_FORKS == 4      \* fetchAllForks: SAVE_INTERVAL = 1000
SAVE_INTERVAL_ISSUES == 4     \* fetchAllIssues: SAVE_INTERVAL = 1000
SAVE_INTERVAL_PRS == 2        \* fetchAllPullRequests: SAVE_INTERVAL = 500
SAVE_INTERVAL_COMMITS == 2    \* fetchContributorCommits: SAVE_INTERVAL = 500
maxRetries == 10              \* fetchAllStargazersGraphQL: maxRetries = 10

Kinds == {"stars", "forks", "issues", "prs", "commits"}
PagedKinds == {"forks", "issues", "prs", "commits"}

SAVE_INTERVAL(type) ==
    CASE type = "stars" -> SAVE_INTERVAL_STARS
      [] type = "forks" -> SAVE_INTERVAL_FORKS
      [] type = "issues" -> SAVE_INTERVAL_ISSUES
      [] type = "prs" -> SAVE_INTERVAL_PRS
      [] type = "commits" -> SAVE_INTERVAL_COMMITS

\* what one request can come to: a page, the pagination-ceiling error
\* (422 "pagination"), a rate-limit error (403/429), another error
Outcomes == {"ok", "ceiling", "rate", "transient"}

\* resp maps a page number (a request number, for the cursor API) to the
\* outcome of the request; a request it does not name succeeds
RespOf(resp, n) == IF n \in DOMAIN resp THEN resp[n] ELSE "ok"

\* page `page` of an offset-paginated collection
PageData(list, page) ==
    SubSeq(list, (page - 1) * perPage + 1, Min(page * perPage, Len(list)))

RECURSIVE MaxDate(_, _, _)
MaxDate(lastDate, data, field) ==
    IF data = <<>> THEN lastDate
    ELSE MaxDate(IF lastDate = 0 \/ UtcDate(Head(data)[field]) > lastDate
                 THEN UtcDate(Head(data)[field]) ELSE lastDate,
                 Tail(data), field)

\* the items a harvester pushes for one page (fetchAllIssues drops the
\* entries of the issues endpoint that are pull requests, line 801)
Pushed(type, data) ==
    IF type = "issues"
    THEN LET real == SelectSeq(data, LAMBDA i : ~i.pull_request)
         IN [k \in 1..Len(real) |->
                [createdAt |-> real[k].createdAt, closedAt |-> real[k].closedAt]]
    ELSE data

\* lastDate after a page (issues: lines 809-812; commits: lines 1101-1104)
DateAfter(type, lastDate, data) ==
    CASE type = "issues" -> MaxDate(lastDate, Pushed(type, data), "createdAt")
      [] type = "commits" -> MaxDate(lastDate, data, "date")
      [] OTHER -> lastDate

\* lastPage after a page (forks: line 684; PRs: line 932)
PageAfter(type, lastPage, page) ==
    IF type \in {"forks", "prs"} THEN page ELSE lastPage

(***************************************************************************)
(* The loop shared by fetchAllForks (617-737), fetchAllIssues (739-862),   *)
(* fetchAllPullRequests (864-982) and fetchContributorCommits (1036-1154). *)
(* st is the harvester's local state; b the flags of the current batch.    *)
(***************************************************************************)
\* the for loop over the settled results of one batch, from index i
RECURSIVE ProcessResults(_, _, _, _, _)
ProcessResults(type, b, i, list, resp) ==
    IF i >= PARALLEL_REQUESTS THEN b
    ELSE LET page == b.currentPage + i
             out == RespOf(resp, page)
             data == PageData(list, page)
         IN CASE out = "ceiling" ->
                     [b EXCEPT !.hitPaginationLimit = TRUE, !.gotEmptyPage = TRUE]
              [] out = "rate" ->
                     [b EXCEPT !.waits = @ + 1, !.gotEmptyPage = TRUE]
              [] out = "transient" ->
                     ProcessResults(type, [b EXCEPT !.skipped = @ \cup {page}],
                                    i + 1, list, resp)
              [] OTHER ->
                     IF data = <<>>
                     THEN [b EXCEPT !.gotEmptyPage = TRUE]
                     ELSE ProcessResults(type,
                            [b EXCEPT !.items = @ \o Pushed(type, data),
                                      !.lastPage = PageAfter(type, @, page),
                                      !.lastDate = DateAfter(type, @, data),
                                      !.fetched = @ \cup {page},
                                      !.gotPartialPage = @ \/ (Len(data) < perPage)],
                            i + 1, list, resp)

\* the periodic save after a batch (forks: 700-705)
PeriodicSave(type, b) ==
    IF Len(b.items) - b.lastSaveCount >= SAVE_INTERVAL(type)
    THEN [b EXCEPT !.saves = Append(@, [type |-> type, page |-> b.lastPage,
                                        lastDate |-> b.lastDate, cursor |-> 0,
                                        hasMore |-> TRUE,
                                        from |-> b.lastSaveCount,
                                        to |-> Len(b.items)]),
                   !.lastSaveCount = Len(b.items)]
    ELSE b

\* the end of an iteration: stop, or move to the next batch (forks: 707-715)
EndBatch(b) ==
    IF b.gotEmptyPage \/ b.gotPartialPage \/ b.hitPaginationLimit
    THEN [b EXCEPT !.hasMore = FALSE]
    ELSE [b EXCEPT !.currentPage = @ + PARALLEL_REQUESTS]

\* one iteration of while (hasMore)
Batch(type, st, list, resp) ==
    EndBatch(PeriodicSave(type,
        ProcessResults(type,
            [st EXCEPT !.gotEmptyPage = FALSE, !.gotPartialPage = FALSE,
                       !.requests = @ \o [k \in 1..PARALLEL_REQUESTS |->
                                             st.currentPage + k - 1]],
            0, list, resp)))

RECURSIVE PagedLoop(_, _, _, _)
PagedLoop(type, st, list, resp) ==
    IF ~st.hasMore THEN st ELSE PagedLoop(type, Batch(type, st, list, resp), list, resp)

\* the save after the loop (forks: 725-729)
FinalSave(type, st) ==
    IF Len(st.items) > st.lastSaveCount
    THEN [st EXCEPT !.saves = Append(@, [type |-> type, page |-> st.lastPage,
                                         lastDate |-> st.lastDate, cursor |-> 0,
                                         hasMore |-> FALSE,
                                         from |-> st.lastSaveCount,
                                         to |-> Len(st.items)])]
    ELSE st

\* the locals of a paged harvester before its loop (forks: 618-626)
PagedStart(type, startPage) ==
    [items |-> <<>>, currentPage |-> startPage, hitPaginationLimit |-> FALSE,
     lastPage |-> IF type \in {"forks", "prs"} THEN startPage ELSE 0,
     lastDate |-> 0, lastSaveCount |-> 0, hasMore |-> TRUE,
     gotEmptyPage |-> FALSE, gotPartialPage |-> FALSE,
     saves |-> <<>>, requests |-> <<>>, waits |-> 0,
     fetched |-> {}, skipped |-> {}]

\* the harvester from its first line to its return
PagedHarvest(type, list, startPage, resp) ==
    FinalSave(type, PagedLoop(type, PagedStart(type, startPage), list, resp))

fetchAllForks(list, startPage, resp) == PagedHarvest("forks", list, startPage, resp)

fetchAllPullRequests(list, startPage, resp) == PagedHarvest("prs", list, startPage, resp)

\* the since filter is applied by the upstream: list is what it then returns
fetchAllIssues(list, resp) == PagedHarvest("issues", list, 1, resp)

fetchContributorCommits(list, resp) == PagedHarvest("commits", list, 1, resp)

(***************************************************************************)
(* fetchAllStargazersGraphQL, 398-547.  A cursor is the number of          *)
(* stargazers that precede it in the upstream order; 0 is the null cursor  *)
(* (the start of the collection, and the endCursor of an empty page).      *)
(***************************************************************************)
\* the catch branch of an error that is not a rate-limit error (516-527)
StarsRetrySkipsPage(asked, st) ==
    [asked EXCEPT !.retryCount = @ + 1,
                  !.broke = (st.retryCount + 1 >= maxRetries),
                  !.cursor = @ + perPage]

StarsRetry(asked, st) ==
    [asked EXCEPT !.retryCount = @ + 1,
                  !.broke = (st.retryCount + 1 >= maxRetries)]

\* one iteration of while (hasNextPage && retryCount < maxRetries), 435-528;
\* out is what the request of this iteration comes to
StarsStep(st, list, out) ==
    LET asked == [st EXCEPT !.requests = Append(@, st.cursor)]
        edges == SubSeq(list, st.cursor + 1, Min(st.cursor + perPage, Len(list)))
        endCursor == IF edges = <<>> THEN 0 ELSE st.cursor + Len(edges)
        hasNextPage == st.cursor + Len(edges) < Len(list)
        stargazers == st.stargazers \o edges
        save == Len(stargazers) - st.lastSaveCount >= SAVE_INTERVAL_STARS
    IN CASE out = "ok" ->
              [asked EXCEPT
                 !.stargazers = stargazers,
                 !.lastCursor = endCursor,
                 !.hasNextPage = hasNextPage,
                 !.cursor = endCursor,
                 !.saves = IF save
                           THEN Append(@, [type |-> "stars", page |-> 0,
                                           lastDate |-> 0, cursor |-> endCursor,
                                           hasMore |-> hasNextPage,
                                           from |-> st.lastSaveCount,
                                           to |-> Len(stargazers)])
                           ELSE @,
                 !.lastSaveCount = IF save THEN Len(stargazers) ELSE @,
                 !.retryCount = 0]
         [] out = "rate" ->
              [asked EXCEPT
                 !.hitRateLimit = TRUE,
                 !.broke = TRUE,
                 !.saves = IF Len(st.stargazers) > st.lastSaveCount
                           THEN Append(@, [type |-> "stars", page |-> 0,
                                           lastDate |-> 0, cursor |-> st.lastCursor,
                                           hasMore |-> TRUE,
                                           from |-> st.lastSaveCount,
                                           to |-> Len(st.stargazers)])
                           ELSE @]
         [] OTHER -> StarsRetry(asked, st)

\* the loop condition of line 435, and the breaks of the catch branch
StarsContinues(st) == st.hasNextPage /\ st.retryCount < maxRetries /\ ~st.broke

RECURSIVE StarsLoop(_, _, _)
StarsLoop(st, list, resp) ==
    IF ~StarsContinues(st) THEN st
    ELSE StarsLoop(StarsStep(st, list, RespOf(resp, Len(st.requests) + 1)), list, resp)

\* the save after the loop (530-538)
StarsFinalSave(st) ==
    IF Len(st.stargazers) > st.lastSaveCount
    THEN [st EXCEPT !.saves = Append(@, [type |-> "stars", page |-> 0,
                                         lastDate |-> 0, cursor |-> st.lastCursor,
                                         hasMore |-> st.hasNextPage,
                                         from |-> st.lastSaveCount,
                                         to |-> Len(st.stargazers)])]
    ELSE st

\* the locals of the harvester before its loop (400-408)
StarsStart(startCursor) ==
    [stargazers |-> <<>>, cursor |-> startCursor, hasNextPage |-> TRUE,
     retryCount |-> 0, lastCursor |-> startCursor, hitRateLimit |-> FALSE,
     lastSaveCount |-> 0, broke |-> FALSE,
     saves |-> <<>>, requests |-> <<>>]

fetchAllStargazersGraphQL(list, startCursor, resp) ==
    StarsFinalSave(StarsLoop(StarsStart(startCursor), list, resp))

(***************************************************************************)
(* The upstream repository: one fixed timeline of events.  What a request  *)
(* at time t sees is what has happened by t.                               *)
(***************************************************************************)
RepoCreatedAt == At(1, 1)
FirstRunAt == At(2, 13)

\* stargazers, ascending by starredAt (orderBy STARRED_AT ASC)
UpstreamStars ==
    <<[starredAt |-> At(1, 12)], [starredAt |-> At(1, 12)],
      [starredAt |-> At(2, 12)], [starredAt |-> At(2, 12)],
      [starredAt |-> At(3, 12)]>>

\* forks, oldest first (sort: 'oldest')
UpstreamForks ==
    <<[createdAt |-> At(1, 12)], [createdAt |-> At(1, 12)],
      [createdAt |-> At(2, 12)], [createdAt |-> At(3, 12)]>>

\* pull requests, ascending by creation
UpstreamPRs ==
    <<[createdAt |-> At(1, 12), closedAt |-> At(2, 12), mergedAt |-> At(2, 12)],
      [createdAt |-> At(2, 12), closedAt |-> 0, mergedAt |-> 0],
      [createdAt |-> At(3, 12), closedAt |-> At(3, 12), mergedAt |-> 0]>>

\* the issues endpoint, ascending by creation: issues, and the pull requests
\* above as entries that carry pull_request
UpstreamIssueEntries ==
    <<[createdAt |-> At(1, 12), closedAt |-> At(3, 12), pull_request |-> FALSE],
      [createdAt |-> At(1, 12), closedAt |-> At(2, 12), pull_request |-> TRUE],
      [createdAt |-> At(2, 12), closedAt |-> 0, pull_request |-> FALSE],
      [createdAt |-> At(2, 12), closedAt |-> 0, pull_request |-> TRUE],
      [createdAt |-> At(3, 12), closedAt |-> At(3, 12), pull_request |-> TRUE]>>

\* commits, newest first (the order of listCommits)
UpstreamCommits ==
    <<[author |-> "bob", date |-> At(3, 12)],
      [author |-> "ann", date |-> At(2, 12)],
      [author |-> "ann", date |-> At(1, 12)]>>

\* a time of the event as a request at t reports it: null while in the future
Seen(time, t) == IF time # 0 /\ time <= t THEN time ELSE 0

VisibleStars(t) == SelectSeq(UpstreamStars, LAMBDA e : e.starredAt <= t)

VisibleForks(t) == SelectSeq(UpstreamForks, LAMBDA e : e.createdAt <= t)

VisiblePRs(t) ==
    LET v == SelectSeq(UpstreamPRs, LAMBDA e : e.createdAt <= t)
    IN [k \in 1..Len(v) |-> [createdAt |-> v[k].createdAt,
                             closedAt |-> Seen(v[k].closedAt, t),
                             mergedAt |-> Seen(v[k].mergedAt, t)]]

VisibleIssueEntries(t) ==
    LET v == SelectSeq(UpstreamIssueEntries, LAMBDA e : e.createdAt <= t)
    IN [k \in 1..Len(v) |-> [createdAt |-> v[k].createdAt,
                             closedAt |-> Seen(v[k].closedAt, t),
                             pull_request |-> v[k].pull_request]]

\* params.since = new Date(sinceDate).toISOString(): 00:00 UTC of that day;
\* the issues endpoint keeps what was updated at or after it, the commits
\* endpoint what was committed at or after it
SinceTime(sinceDate) == At(sinceDate, 0)

IssuesEndpoint(t, sinceDate) ==
    SelectSeq(VisibleIssueEntries(t),
              LAMBDA e : sinceDate = 0
                         \/ Max(e.createdAt, e.closedAt) >= SinceTime(sinceDate))

CommitsEndpoint(t, sinceDate) ==
    SelectSeq(UpstreamCommits,
              LAMBDA e : e.date <= t /\ (sinceDate = 0 \/ e.date >= SinceTime(sinceDate)))

(***************************************************************************)
(* The store (services/supabase.js): one repositories row, its             *)
(* daily_metrics rows read in date order.  0 is null.                      *)
(***************************************************************************)
\* updateFetchProgress, 594-643: an UPDATE, which changes nothing when the
\* repository has no row.  withState: the argument carries the cursor bag.
updateFetchProgress(s, fetchState, withState, inProgress, t) ==
    IF ~s.exists THEN s
    ELSE LET timed == [s EXCEPT !.last_fetched = t, !.fetch_in_progress = inProgress]
         IN IF withState
            THEN [timed EXCEPT
                    !.stars_cursor = fetchState.stars_cursor,
                    !.stars_pagination_limited = fetchState.stars_limited,
                    !.forks_last_page = fetchState.forks_lastPage,
                    !.forks_pagination_limited = fetchState.forks_limited,
                    !.prs_last_page = fetchState.prs_lastPage,
                    !.prs_pagination_limited = fetchState.prs_limited,
                    !.issues_last_date = fetchState.issues_lastDate,
                    !.commits_last_date = fetchState.commits_lastDate]
            ELSE timed

\* the row saveRepoToCache writes for a daily point (152-163)
ToRow(m) ==
    DailyPoint(m.date, m.totalStars, m.totalForks, m.totalContributors,
               m.totalIssuesOpened, m.totalIssuesClosed,
               m.totalPRsOpened, m.totalPRsClosed, m.totalPRsMerged)

RECURSIVE UpsertRows(_, _)
UpsertRows(rows, ms) ==
    IF ms = <<>> THEN rows ELSE UpsertRows(MapSet(rows, ToRow(Head(ms))), Tail(ms))

\* saveRepoToCache, 95-194: upsert of the repositories row (a new row gets
\* the column default fetch_in_progress = false), then the daily rows
saveRepoToCache(s, dailyMetrics, incrementalUpdate, fetchState, t) ==
    [s EXCEPT
        !.exists = TRUE,
        !.last_fetched = t,
        !.stars_cursor = fetchState.stars_cursor,
        !.stars_pagination_limited = fetchState.stars_limited,
        !.forks_last_page = fetchState.forks_lastPage,
        !.forks_pagination_limited = fetchState.forks_limited,
        !.prs_last_page = fetchState.prs_lastPage,
        !.prs_pagination_limited = fetchState.prs_limited,
        !.issues_last_date = fetchState.issues_lastDate,
        !.commits_last_date = fetchState.commits_lastDate,
        !.metrics = SortByDate(UpsertRows(IF incrementalUpdate THEN s.metrics ELSE <<>>,
                                          dailyMetrics))]

\* getRepoFromCache(...).fetchState, 67-87
CachedFetchState(s) ==
    [stars_cursor |-> s.stars_cursor, stars_limited |-> s.stars_pagination_limited,
     forks_lastPage |-> s.forks_last_page, forks_limited |-> s.forks_pagination_limited,
     prs_lastPage |-> s.prs_last_page, prs_limited |-> s.prs_pagination_limited,
     issues_lastDate |-> s.issues_last_date, commits_lastDate |-> s.commits_last_date]

\* getRepoFromCache(...).lastDate, 59
CachedLastDate(s) ==
    IF s.exists /\ Len(s.metrics) > 0 THEN s.metrics[Len(s.metrics)].date ELSE 0

HasCache(s) == s.exists /\ Len(s.metrics) > 0

(***************************************************************************)
(* fetchData, App.jsx 107-280, and the handlers that call it.              *)
(***************************************************************************)
MaxRuns == 2          \* runs of fetchData in one behaviour
MaxFaults == 2        \* failed requests and process stops in one behaviour
MaxFaultPage == 2     \* the pages (requests) a failure can hit

SysZones == {0}

NoResult == [done |-> FALSE]

\* createOnSave, 152-176
onSave(cfs, saveData) ==
    CASE saveData.type = "stars" /\ saveData.cursor # 0 ->
            [cfs EXCEPT !.stars_cursor = saveData.cursor, !.stars_limited = saveData.hasMore]
      [] saveData.type = "forks" /\ saveData.page # 0 ->
            [cfs EXCEPT !.forks_lastPage = saveData.page, !.forks_limited = saveData.hasMore]
      [] saveData.type = "issues" /\ saveData.lastDate # 0 ->
            [cfs EXCEPT !.issues_lastDate = saveData.lastDate]
      [] saveData.type = "prs" /\ saveData.page # 0 ->
            [cfs EXCEPT !.prs_lastPage = saveData.page, !.prs_limited = saveData.hasMore]
      [] saveData.type = "commits" /\ saveData.lastDate # 0 ->
            [cfs EXCEPT !.commits_lastDate = saveData.lastDate]
      [] OTHER -> cfs

\* the onSave calls of one harvester, in order: each updates
\* currentFetchState and writes all of it with inProgress = true
RECURSIVE ApplySaves(_, _, _, _)
ApplySaves(cfs, s, saves, t) ==
    IF saves = <<>> THEN [cfs |-> cfs, store |-> s]
    ELSE LET c == onSave(cfs, Head(saves))
         IN ApplySaves(c, updateFetchProgress(s, c, TRUE, TRUE, t), Tail(saves), t)

\* lines 143-149
InitialFetchState(rs) ==
    [stars_cursor |-> rs.stars_cursor, stars_limited |-> FALSE,
     forks_lastPage |-> rs.forks_lastPage, forks_limited |-> FALSE,
     prs_lastPage |-> rs.prs_lastPage, prs_limited |-> FALSE,
     issues_lastDate |-> rs.issues_lastDate, commits_lastDate |-> rs.commits_lastDate]

\* lines 181-185
StartPage(lastPage) == IF lastPage # 0 THEN lastPage + 1 ELSE 1

\* lines 190-196: the call of one harvester
RunHarvester(k, rs, t, resp) ==
    CASE k = "stars" -> fetchAllStargazersGraphQL(VisibleStars(t), rs.stars_cursor, resp)
      [] k = "forks" -> fetchAllForks(VisibleForks(t), StartPage(rs.forks_lastPage), resp)
      [] k = "issues" -> fetchAllIssues(IssuesEndpoint(t, rs.issues_lastDate), resp)
      [] k = "prs" -> fetchAllPullRequests(VisiblePRs(t), StartPage(rs.prs_lastPage), resp)
      [] k = "commits" ->
            fetchContributorCommits(CommitsEndpoint(t, rs.commits_lastDate), resp)

\* lines 234-254
FinalFetchState(res) ==
    LET starsLimited == res["stars"].hasNextPage \/ res["stars"].hitRateLimit
    IN [stars_cursor |-> IF starsLimited THEN res["stars"].lastCursor ELSE 0,
        stars_limited |-> starsLimited,
        forks_lastPage |-> IF res["forks"].hitPaginationLimit
                           THEN res["forks"].lastPage ELSE 0,
        forks_limited |-> res["forks"].hitPaginationLimit,
        prs_lastPage |-> IF res["prs"].hitPaginationLimit THEN res["prs"].lastPage ELSE 0,
        prs_limited |-> res["prs"].hitPaginationLimit,
        issues_lastDate |-> res["issues"].lastDate,
        commits_lastDate |-> res["commits"].lastDate]

\* lines 257-259 (the stars result has no hitPaginationLimit)
AnyLimited(res) ==
    \E k \in PagedKinds : res[k].hitPaginationLimit

\* the failures the environment can inject into one harvester run
PagedFaults ==
    { [p \in {q} |-> o] : q \in 1..MaxFaultPage, o \in {"ceiling", "rate", "transient"} }

StarsFaults ==
    { [n \in {q} |-> o] : q \in 1..MaxFaultPage, o \in {"rate", "transient"} }
        \cup { [n \in q..(q + maxRetries - 1) |-> "transient"] : q \in 1..MaxFaultPage }

RespChoices(k) == {<< >>} \cup (IF k = "stars" THEN StarsFaults ELSE PagedFaults)

FaultCount(resp) == IF DOMAIN resp = {} THEN 0 ELSE 1

\* a failure is the failure of a request the harvester made
Hits(k, resp, r) ==
    \/ DOMAIN resp = {}
    \/ \E n \in DOMAIN resp :
          IF k = "stars" THEN n <= Len(r.requests) ELSE n \in SeqToSet(r.requests)

\* how a harvester ended: "exhausted" (everything fetched), "limited" (it
\* stopped at a ceiling or on a rate limit), "failed" (a request failed
\* otherwise and its page is missing)
Ending(k, r) ==
    IF k = "stars"
    THEN (IF r.hitRateLimit THEN "limited"
          ELSE IF r.hasNextPage THEN "failed" ELSE "exhausted")
    ELSE (IF r.skipped # {} THEN "failed"
          ELSE IF r.hitPaginationLimit \/ r.waits > 0 THEN "limited" ELSE "exhausted")

RunEnding(res) ==
    IF \E k \in Kinds : Ending(k, res[k]) = "failed" THEN "failed"
    ELSE IF \E k \in Kinds : Ending(k, res[k]) = "limited" THEN "limited"
    ELSE "complete"

SysInit ==
    /\ MergeIdle
    /\ AggIdle
    /\ PolIdle
    /\ BatchIdle
    /\ RollIdle
    /\ HarvIdle
    /\ now = FirstRunAt
    /\ tz \in SysZones
    /\ store = NoRepository
    /\ phase = "idle"
    /\ strategy = "none"
    /\ resumeState = NoFetchState
    /\ currentFetchState = NoFetchState
    /\ results = [k \in Kinds |-> NoResult]
    /\ ui = [loaded |-> FALSE, limited |-> FALSE]
    /\ runs = 0
    /\ faults = 0
    /\ hist = NoHistory

\* the first lines of fetchData (107-121): the run is marked in progress
StartRun(strat, rs) ==
    /\ phase = "idle"
    /\ runs < MaxRuns
    /\ phase' = "info"
    /\ strategy' = strat
    /\ resumeState' = rs
    /\ currentFetchState' = InitialFetchState(rs)
    /\ results' = [k \in Kinds |-> NoResult]
    /\ store' = updateFetchProgress(store, NoFetchState, FALSE, TRUE, now)
    /\ runs' = runs + 1
    /\ hist' = [startStore |-> store, ended |-> "running", before |-> hist.ended,
                forksCeiling |-> IF /\ store.forks_pagination_limited
                                    /\ results["forks"].done
                                    /\ store.forks_last_page \in results["forks"].fetched
                                 THEN store.forks_last_page ELSE 0,
                sinceDate |-> rs.issues_lastDate]
    /\ UNCHANGED <<now, tz, ui, faults>>
    /\ UNCHANGED <<mergeVars, aggVars, polVars, batchVars, rollVars, harvVars>>

\* handleSubmit, 283-322, with nothing cached: fetchData(owner, repo, token, null)
StartFull ==
    /\ ~HasCache(store)
    /\ StartRun("full", NoFetchState)

\* handleSubmit / loadFromCache with a cache: the cached series is shown
LoadCache ==
    /\ phase = "idle"
    /\ HasCache(store)
    /\ ~ui.loaded
    /\ ui' = [loaded |-> TRUE,
              limited |-> store.stars_pagination_limited
                          \/ store.forks_pagination_limited
                          \/ store.prs_pagination_limited]
    /\ UNCHANGED <<now, tz, store, phase, strategy, resumeState, currentFetchState,
                   results, runs, faults, hist>>
    /\ UNCHANGED <<mergeVars, aggVars, polVars, batchVars, rollVars, harvVars>>

\* handleContinueFetching, 354-376 (the button shows while paginationLimited)
StartContinue ==
    /\ ui.loaded
    /\ ui.limited
    /\ store.exists
    /\ StartRun("resume", CachedFetchState(store))

\* handleUpdateToToday, 325-351
StartQuick ==
    /\ ui.loaded
    /\ StartRun("quick", [NoFetchState EXCEPT !.issues_lastDate = CachedLastDate(store),
                                              !.commits_lastDate = CachedLastDate(store)])

isResuming == strategy # "full"

\* fetchRepoInfo, line 124
FetchRepoInfo ==
    /\ phase = "info"
    /\ phase' = "harvest"
    /\ UNCHANGED <<now, tz, store, strategy, resumeState, currentFetchState,
                   results, ui, runs, faults, hist>>
    /\ UNCHANGED <<mergeVars, aggVars, polVars, batchVars, rollVars, harvVars>>

\* fetchRepoInfo throws: the catch of fetchData (275-279) ends the run
FetchRepoInfoFails ==
    /\ phase = "info"
    /\ faults < MaxFaults
    /\ faults' = faults + 1
    /\ phase' = "idle"
    /\ hist' = [hist EXCEPT !.ended = "threw"]
    /\ UNCHANGED <<now, tz, store, strategy, resumeState, currentFetchState,
                   results, ui, runs>>
    /\ UNCHANGED <<mergeVars, aggVars, polVars, batchVars, rollVars, harvVars>>

\* one harvester of the Promise.all (190-196), from call to return, with the
\* onSave calls it makes
Harvest(k) ==
    /\ phase = "harvest"
    /\ ~results[k].done
    /\ \E resp \in RespChoices(k) :
          /\ faults + FaultCount(resp) <= MaxFaults
          /\ faults' = faults + FaultCount(resp)
          /\ \E r \in {RunHarvester(k, resumeState, now, resp)} :
                /\ Hits(k, resp, r)
                /\ results' = [results EXCEPT ![k] = r @@ [done |-> TRUE]]
                /\ \E saved \in {ApplySaves(currentFetchState, store, r.saves, now)} :
                      /\ currentFetchState' = saved.cfs
                      /\ store' = saved.store
    /\ UNCHANGED <<now, tz, phase, strategy, resumeState, ui, runs, hist>>
    /\ UNCHANGED <<mergeVars, aggVars, polVars, batchVars, rollVars, harvVars>>

HarvestStars == Harvest("stars")
HarvestForks == Harvest("forks")
HarvestIssues == Harvest("issues")
HarvestPRs == Harvest("prs")
HarvestCommits == Harvest("commits")

\* a variant of lines 207-269 in which the failure of one harvester aborts
\* the run: nothing is aggregated or persisted unless all five are complete
FinishUnlessFailed ==
    /\ phase = "harvest"
    /\ \A k \in Kinds : results[k].done
    /\ \E fetchState \in {FinalFetchState(results)} :
          store' = IF RunEnding(results) = "complete"
                   THEN updateFetchProgress(
                            saveRepoToCache(store,
                                aggregateToDaily(RepoCreatedAt, now, tz,
                                    results["stars"].stargazers, results["forks"].items,
                                    results["issues"].items, results["prs"].items,
                                    results["commits"].items),
                                isResuming, fetchState, now),
                            fetchState, TRUE, FALSE, now)
                   ELSE store
    /\ ui' = [loaded |-> TRUE, limited |-> AnyLimited(results)]
    /\ phase' = "idle"
    /\ hist' = [hist EXCEPT !.ended = RunEnding(results)]
    /\ UNCHANGED <<now, tz, strategy, resumeState, currentFetchState, results,
                   runs, faults>>
    /\ UNCHANGED <<mergeVars, aggVars, polVars, batchVars, rollVars, harvVars>>

\* lines 207-269: aggregate, merge with the cache, save, mark complete
Finish ==
    /\ phase = "harvest"
    /\ \A k \in Kinds : results[k].done
    /\ LET newAggregated == aggregateToDaily(RepoCreatedAt, now, tz,
                                results["stars"].stargazers, results["forks"].items,
                                results["issues"].items, results["prs"].items,
                                results["commits"].items)
           finalData == IF isResuming /\ HasCache(store)
                        THEN mergeDailyMetrics(store.metrics, newAggregated)
                        ELSE newAggregated
           fetchState == FinalFetchState(results)
           saved == saveRepoToCache(store, finalData, isResuming, fetchState, now)
       IN store' = updateFetchProgress(saved, fetchState, TRUE, FALSE, now)
    /\ ui' = [loaded |-> TRUE, limited |-> AnyLimited(results)]
    /\ phase' = "idle"
    /\ hist' = [hist EXCEPT !.ended = RunEnding(results)]
    /\ UNCHANGED <<now, tz, strategy, resumeState, currentFetchState, results,
                   runs, faults>>
    /\ UNCHANGED <<mergeVars, aggVars, polVars, batchVars, rollVars, harvVars>>

\* the process stops (the tab is closed or reloaded) between two steps of a
\* run: what is in the store stays, the React state is gone
Stopped ==
    /\ phase' = "idle"
    /\ ui' = [loaded |-> FALSE, limited |-> FALSE]
    /\ faults' = faults + 1
    /\ hist' = [hist EXCEPT !.ended = "stopped"]
    /\ UNCHANGED <<now, tz, strategy, resumeState, runs>>
    /\ UNCHANGED <<mergeVars, aggVars, polVars, batchVars, rollVars, harvVars>>

ProcessStops ==
    /\ phase \in {"info", "harvest"}
    /\ faults < MaxFaults
    /\ Stopped
    /\ UNCHANGED <<store, currentFetchState, results>>

\* the process stops inside a harvester, after one of its periodic saves
ProcessStopsAfterSave ==
    /\ phase = "harvest"
    /\ faults < MaxFaults
    /\ \E k \in Kinds :
          /\ ~results[k].done
          /\ \E saves \in {RunHarvester(k, resumeState, now, << >>).saves} :
                \E n \in 1..Len(saves) :
                   /\ saves[n].hasMore
                   /\ \E saved \in {ApplySaves(currentFetchState, store,
                                                 SubSeq(saves, 1, n), now)} :
                         /\ currentFetchState' = saved.cfs
                         /\ store' = saved.store
    /\ Stopped
    /\ UNCHANGED results

\* a day passes between two runs
Tick ==
    /\ phase = "idle"
    /\ UtcDate(now) < MaxDay
    /\ now' = now + HoursPerDay
    /\ UNCHANGED <<tz, store, phase, strategy, resumeState, currentFetchState,
                   results, ui, runs, faults, hist>>
    /\ UNCHANGED <<mergeVars, aggVars, polVars, batchVars, rollVars, harvVars>>

Next ==
    \/ StartFull
    \/ LoadCache
    \/ StartContinue
    \/ StartQuick
    \/ FetchRepoInfo
    \/ FetchRepoInfoFails
    \/ HarvestStars
    \/ HarvestForks
    \/ HarvestIssues
    \/ HarvestPRs
    \/ HarvestCommits
    \/ Finish
    \/ ProcessStops
    \/ ProcessStopsAfterSave
    \/ Tick

Init == SysInit

Spec == Init /\ [][Next]_vars

(***************************************************************************)
(* Properties of the orchestrator.                                         *)
(***************************************************************************)
LastRow(s) == s.metrics[Len(s.metrics)]

\* the upstream counts at time t
IssuesUpstream(t) == SelectSeq(VisibleIssueEntries(t), LAMBDA e : ~e.pull_request)

AuthorsUpstream(t) == { c.author : c \in SeqToSet(CommitsEndpoint(t, 0)) }

\* the cache a run started from has no harvester marked limited
CacheComplete(s) ==
    /\ HasCache(s)
    /\ ~s.stars_pagination_limited
    /\ ~s.forks_pagination_limited
    /\ ~s.prs_pagination_limited

\* a run resumed from the persisted cursors after a limited run has ended
\* with every harvester exhausted
ResumedToCompletion ==
    /\ phase = "idle"
    /\ strategy = "resume"
    /\ hist.before = "limited"
    /\ hist.ended = "complete"

\* C1: when a run that ended at a rate limit or a pagination ceiling has been
\* resumed from the persisted cursors and the resumed run has completed, the
\* totals of the last persisted day are the upstream counts at the time of
\* the run: stars, forks, pull requests, issues and contributors.
C1_ResumeTotalsExact ==
    ResumedToCompletion =>
        /\ LastRow(store).totalStars = Len(VisibleStars(store.last_fetched))
        /\ LastRow(store).totalForks = Len(VisibleForks(store.last_fetched))
        /\ LastRow(store).totalPRsOpened = Len(VisiblePRs(store.last_fetched))
        /\ LastRow(store).totalIssuesOpened = Len(IssuesUpstream(store.last_fetched))
        /\ LastRow(store).totalContributors
              = Cardinality(AuthorsUpstream(store.last_fetched))

\* a run that resumed a forks harvest stopped at the ceiling has ended, its
\* own forks harvest exhausted
ForksResumed ==
    /\ phase = "idle"
    /\ strategy = "resume"
    /\ hist.forksCeiling # 0
    /\ hist.ended \in {"complete", "limited", "failed"}
    /\ Ending("forks", results["forks"]) = "exhausted"

\* C7: when the forks harvest stopped at the ceiling with page p as the last
\* page fetched, the resumed run requests page p + 1 first, and after its
\* result is merged the fork total of the last persisted day is the number
\* of forks upstream.
C7_ForksResumeExact ==
    ForksResumed =>
        /\ Head(results["forks"].requests) = hist.forksCeiling + 1
        /\ LastRow(store).totalForks = Len(VisibleForks(store.last_fetched))

\* C8: in an Update to Today on a complete cache the stars, forks and pull
\* request harvesters issue no request, and the run leaves the cached stars,
\* forks and pull request totals of every cached day as they were.
C8_QuickFetchesOnlyIssuesAndCommits ==
    (strategy = "quick" /\ CacheComplete(hist.startStore)) =>
        /\ \A k \in {"stars", "forks", "prs"} :
              results[k].done => results[k].requests = << >>
        /\ (phase = "idle" /\ hist.ended = "complete") =>
              \A m \in SeqToSet(hist.startStore.metrics) :
                  /\ MapHas(store.metrics, m.date)
                  /\ MapGet(store.metrics, m.date).totalStars = m.totalStars
                  /\ MapGet(store.metrics, m.date).totalForks = m.totalForks
                  /\ MapGet(store.metrics, m.date).totalPRsOpened = m.totalPRsOpened

\* C9: while a run is in flight (from its start until it ends), the
\* repository has a record and the record says inProgress = true.
C9_InProgressWhileInFlight ==
    (phase \in {"info", "harvest"}) => (store.exists /\ store.fetch_in_progress)

\* C10: after a run in which a harvester ended at a pagination ceiling, on a
\* rate limit or on a fetch failure, and after a run that threw on a
\* repository that had a record, the record says inProgress = true.
C10_ClearedOnlyOnFullSuccess ==
    (/\ phase = "idle"
     /\ \/ hist.ended \in {"limited", "failed"}
        \/ hist.ended = "threw" /\ hist.startStore.exists)
        => (store.exists /\ store.fetch_in_progress)

(***************************************************************************)
(* Properties of the harvesters, stated on the results of a run while the  *)
(* run is in its harvest phase (the clock does not move during a run).     *)
(***************************************************************************)
ItemsOf(k, r) == IF k = "stars" THEN r.stargazers ELSE r.items

\* the harvester met a rate-limit rejection
RateLimited(k, r) == IF k = "stars" THEN r.hitRateLimit ELSE r.waits > 0

\* what the same call returns when no request fails
Unhindered(k) == RunHarvester(k, resumeState, now, << >>)

\* C11: a harvester that met a rate-limit rejection still returns every item
\* that it returns when no request fails: the rejection does not end the
\* harvest and no page is missing from the result.
C11_RateLimitNeverFatal ==
    (phase = "harvest") =>
        \A k \in Kinds :
            (results[k].done /\ RateLimited(k, results[k]))
                => ItemsOf(k, results[k]) = ItemsOf(k, Unhindered(k))

\* C12: in the forks, PRs, issues and commits harvesters no items of a page
\* after a failed page are in the result of the run.
C12_FailedPageIsBoundary ==
    (phase = "harvest") =>
        \A k \in PagedKinds :
            results[k].done =>
                \A p \in results[k].skipped :
                    \A q \in results[k].fetched : q < p

\* C13: when the forks or PRs harvester returns lastPage as the resume marker
\* of a harvest stopped at the ceiling, every page from the start page of the
\* run through lastPage was fetched and its items are in the result.
C13_LastPageIsGapFreePrefix ==
    (phase = "harvest") =>
        \A k \in {"forks", "prs"} :
            (results[k].done /\ results[k].hitPaginationLimit) =>
                \A p \in Head(results[k].requests)..results[k].lastPage :
                    p \in results[k].fetched

\* the number of requests a harvester made for page p
Attempts(r, p) == Cardinality({ i \in 1..Len(r.requests) : r.requests[i] = p })

\* C14: in every harvester a request that failed with a transient error is
\* made again: the stars harvester repeats the cursor (at most maxRetries
\* requests in a row fail before it stops), a paged harvester repeats the
\* page.
C14_TransientIsRetried ==
    (phase = "harvest") =>
        /\ results["stars"].done =>
              /\ results["stars"].retryCount <= maxRetries
              /\ (results["stars"].retryCount > 0 /\ ~results["stars"].hitRateLimit)
                    => Attempts(results["stars"], results["stars"].cursor)
                          = maxRetries
        /\ \A k \in PagedKinds :
              results[k].done =>
                  \A p \in results[k].skipped : Attempts(results[k], p) > 1

\* the items of the pages of list that are in the set pages, in page order
RECURSIVE ItemsOfPages(_, _, _, _)
ItemsOfPages(type, list, pages, p) ==
    IF p * perPage - perPage >= Len(list) THEN << >>
    ELSE (IF p \in pages THEN Pushed(type, PageData(list, p)) ELSE << >>)
            \o ItemsOfPages(type, list, pages, p + 1)

\* the orchestrator's columns for a paged kind
LimitedColumn(s, k) ==
    IF k = "forks" THEN s.forks_pagination_limited ELSE s.prs_pagination_limited

LastPageColumn(s, k) == IF k = "forks" THEN s.forks_last_page ELSE s.prs_last_page

\* a run has ended through Finish and no run has started since
RunFinished == phase = "idle" /\ hist.ended \in {"complete", "limited", "failed"}

\* C15: a forks or PRs harvester refused with the pagination-ceiling error
\* returns (it does not throw) the items of the pages it fetched, with
\* hitPaginationLimit = true and lastPage a page it fetched, and the
\* orchestrator persists limited = true with that lastPage.
C15_CeilingYieldsPartialResult ==
    \A k \in {"forks", "prs"} :
        (results[k].done /\ results[k].hitPaginationLimit) =>
            /\ (phase = "harvest") =>
                  /\ results[k].items
                        = ItemsOfPages(k, IF k = "forks" THEN VisibleForks(now)
                                                          ELSE VisiblePRs(now),
                                       results[k].fetched, 1)
                  /\ results[k].lastPage \in results[k].fetched
            /\ RunFinished =>
                  /\ LimitedColumn(store, k)
                  /\ LastPageColumn(store, k) = results[k].lastPage

\* what the store holds for a kind on its last day, and the upstream count
PersistedTotal(s, k) ==
    CASE k = "stars" -> LastRow(s).totalStars
      [] k = "forks" -> LastRow(s).totalForks
      [] k = "issues" -> LastRow(s).totalIssuesOpened
      [] k = "prs" -> LastRow(s).totalPRsOpened
      [] k = "commits" -> LastRow(s).totalContributors

UpstreamTotal(k, t) ==
    CASE k = "stars" -> Len(VisibleStars(t))
      [] k = "forks" -> Len(VisibleForks(t))
      [] k = "issues" -> Len(IssuesUpstream(t))
      [] k = "prs" -> Len(VisiblePRs(t))
      [] k = "commits" -> Cardinality(AuthorsUpstream(t))

\* a run has ended in which some harvester failed or stopped early
RunWithFailureFinished == RunFinished /\ hist.ended \in {"failed", "limited"}

SAFETY_MARGIN == 5000         \* handleRateLimit: + 5000
DEFAULT_WAIT == 60000         \* handleRateLimit: let waitTime = 60000
MAX_WAIT == 3600000           \* handleRateLimit: Math.min(waitTime, 3600000)
CHECK_MARGIN == 1000          \* checkRateLimit: + 1000
CHECK_LOW_WATER == 10         \* checkRateLimit: remaining < 10
GRAPHQL_LOW_WATER == 50       \* fetchAllStargazersGraphQL: remaining < 50
RETRY_PAUSE == 5000           \* fetchAllStargazersGraphQL: sleep(5000)

\* message.includes('pagination')
IncludesPagination(message) ==
    message \in {"pagination limit", "pagination blocked by rate limit"}

\* message.includes('rate limit')
IncludesRateLimit(message) ==
    message \in {"API rate limit exceeded", "pagination blocked by rate limit"}

\* message.toLowerCase().includes('rate limit')
IncludesRateLimitAnyCase(message) ==
    IncludesRateLimit(message) \/ message = "Rate Limit Exceeded"

isPaginationLimitError(error) ==
    error.status = 422 /\ IncludesPagination(error.message)

isRateLimitError(error) ==
    \/ error.status = 403
    \/ error.status = 429
    \/ IncludesRateLimitAnyCase(error.message)

\* the branch a paged harvester takes for a rejected page (forks: 653-667)
PagedClass(error) ==
    IF isPaginationLimitError(error) THEN "ceiling"
    ELSE IF isRateLimitError(error) THEN "rate"
    ELSE "transient"

\* the branch the stars harvester takes in its catch (499-527)
StarsClass(error) ==
    IF IncludesRateLimit(error.message) \/ error.status = 403 THEN "rate"
    ELSE "transient"

\* a variant of handleRateLimit without the cap of line 366
UncappedWait(headers, clock) ==
    IF headers.hasReset
    THEN Max(0, headers.reset * 1000 - clock) + SAFETY_MARGIN
    ELSE DEFAULT_WAIT

\* the waitTime of handleRateLimit (356-366)
handleRateLimitWait(headers, clock) ==
    Min(IF headers.hasReset
        THEN Max(0, headers.reset * 1000 - clock) + SAFETY_MARGIN
        ELSE DEFAULT_WAIT,
        MAX_WAIT)

\* a variant of the proactive wait that pauses for the margin alone
checkRateLimitWaitMarginOnly(headers, clock) == CHECK_MARGIN

\* the waitTime of checkRateLimit (1160-1161); a missing reset header reads '0'
checkRateLimitWait(headers, clock) ==
    Max(0, (IF headers.hasReset THEN headers.reset ELSE 0) * 1000 - clock) + CHECK_MARGIN

\* the waitTime of the stars harvester when the quota is low (480-482)
GraphQLWait(headers, clock) ==
    Max(0, headers.reset * 1000 - clock) + SAFETY_MARGIN

Statuses == {403, 422, 429, 500}
Messages == {"", "pagination limit", "API rate limit exceeded",
             "Rate Limit Exceeded", "pagination blocked by rate limit"}
ResetSeconds == {0, 1, 121, 3596, 3597, 7200}
Remainings == {0, 9, 10, 49, 50}
ClockMillis == {1000, 1500}

PolInit ==
    /\ MergeIdle
    /\ AggIdle
    /\ SysIdle
    /\ BatchIdle
    /\ RollIdle
    /\ HarvIdle
    /\ pError \in [status : Statuses, message : Messages]
    /\ pHeaders \in [hasReset : {TRUE}, reset : ResetSeconds, remaining : Remainings]
                      \cup [hasReset : {FALSE}, reset : {0}, remaining : Remainings]
    /\ pClock \in ClockMillis
    /\ pOutcome = NoOutcome

PolKeeps ==
    /\ UNCHANGED <<pError, pHeaders, pClock>>
    /\ UNCHANGED <<mergeVars, aggVars, sysVars, batchVars, rollVars, harvVars>>

\* a page request of a paged harvester is rejected
PagedRejected ==
    /\ pOutcome' = [op |-> "paged-rejected",
                    class |-> PagedClass(pError),
                    waited |-> PagedClass(pError) = "rate",
                    wait |-> IF PagedClass(pError) = "rate"
                             THEN handleRateLimitWait(pHeaders, pClock) ELSE 0]
    /\ PolKeeps

\* the GraphQL request of the stars harvester is rejected: a rate-limit error
\* ends the loop without a wait, any other error pauses before the retry
StarsRejected ==
    /\ pOutcome' = [op |-> "stars-rejected",
                    class |-> StarsClass(pError),
                    waited |-> FALSE,
                    wait |-> IF StarsClass(pError) = "rate" THEN 0 ELSE RETRY_PAUSE]
    /\ PolKeeps

\* checkRateLimit after a batch of a paged harvester
PagedQuotaCheck ==
    /\ pOutcome' = [op |-> "paged-check",
                    class |-> "ok",
                    waited |-> pHeaders.remaining < CHECK_LOW_WATER,
                    wait |-> IF pHeaders.remaining < CHECK_LOW_WATER
                             THEN checkRateLimitWait(pHeaders, pClock) ELSE 0]
    /\ PolKeeps

\* the quota check of the stars harvester after a page (the GraphQL
\* rateLimit object always has resetAt)
StarsQuotaCheck ==
    /\ pHeaders.hasReset
    /\ pOutcome' = [op |-> "stars-check",
                    class |-> "ok",
                    waited |-> pHeaders.remaining < GRAPHQL_LOW_WATER,
                    wait |-> IF pHeaders.remaining < GRAPHQL_LOW_WATER
                             THEN GraphQLWait(pHeaders, pClock) ELSE 0]
    /\ PolKeeps

PolNext ==
    \/ PagedRejected
    \/ StarsRejected
    \/ PagedQuotaCheck
    \/ StarsQuotaCheck

SpecPolicy == PolInit /\ [][PolNext]_vars

\* C16: an error with status 422 and a message containing "pagination" is
\* handled as the pagination ceiling by every harvester, and no rate-limit
\* handling is done for it.
C16_CeilingNeverRateLimit ==
    (/\ pOutcome.op \in {"paged-rejected", "stars-rejected"}
     /\ pError.status = 422
     /\ IncludesPagination(pError.message))
        => (pOutcome.class = "ceiling" /\ ~pOutcome.waited)

\* milliseconds from the clock to the reset time of the headers
UntilReset == pHeaders.reset * 1000 - pClock

RejectedWithReset ==
    /\ pOutcome.op = "paged-rejected"
    /\ pOutcome.class = "rate"
    /\ pHeaders.hasReset

\* C17: after a rate-limit rejection that carries a reset time the wait is
\* the time until the reset (0 if it is past) plus 5000 ms, and 3,600,000 ms
\* when that is more; 120 s before the reset it is between 125000 and 130000.
C17_ReactiveWait ==
    RejectedWithReset =>
        /\ pOutcome.waited
        /\ pOutcome.wait <= 3600000
        /\ (UntilReset <= 0) => pOutcome.wait = 5000
        /\ (UntilReset > 0 /\ UntilReset + 5000 <= 3600000)
              => pOutcome.wait = UntilReset + 5000
        /\ (UntilReset + 5000 > 3600000) => pOutcome.wait = 3600000
        /\ (UntilReset = 120000)
              => (pOutcome.wait >= 125000 /\ pOutcome.wait <= 130000)

C17_Witness ==
    /\ RejectedWithReset
    /\ UntilReset = 120000
    /\ pOutcome.wait = 125000

\* C18: every wait of the policy, after a rejection or on a low quota, in
\* the paged harvesters and in the stars harvester, is at most 3,600,000 ms
\* and is the time until the reset plus the same 5000 ms margin.
C18_EveryWaitCappedSameMargin ==
    (pOutcome.waited /\ pHeaders.hasReset) =>
        /\ pOutcome.wait <= 3600000
        /\ \/ pOutcome.wait = 3600000
           \/ pOutcome.wait = Max(0, UntilReset) + 5000

(***************************************************************************)
(* Batches of repositories: BatchFetch (components/BatchFetch.jsx) starts  *)
(* every repository at once under Promise.allSettled; Refresh All          *)
(* (App.jsx, handleRefreshAll) feeds a queue to a fixed number of workers. *)
(* bFails is the environment's choice of the repositories whose fetch      *)
(* fails (fetchRepoInfo throws, or fetchData ends in its catch).           *)
(***************************************************************************)
MaxRepos == 3                 \* repositories in a batch
CONCURRENT_REFRESHES == 2     \* handleRefreshAll: CONCURRENT_REFRESHES = 10

Repos == 1..MaxRepos
Workers == 1..Min(CONCURRENT_REFRESHES, MaxRepos)
IdleWorker == 0
ExitedWorker == 0 - 1

BatchInit ==
    /\ MergeIdle
    /\ AggIdle
    /\ SysIdle
    /\ PolIdle
    /\ RollIdle
    /\ HarvIdle
    /\ bMode \in {"batch", "refresh"}
    /\ bFails \in SUBSET Repos
    /\ bStatus = [r \in Repos |-> "none"]
    /\ bQueue = << >>
    /\ bWorkers = << >>
    /\ bCompleted = 0
    /\ bPhase = "ready"

BatchKeeps == UNCHANGED <<mergeVars, aggVars, sysVars, polVars, rollVars, harvVars>>

\* handleStartFetch, BatchFetch 106-121: every repository is pending, then
\* fetchSingleRepo is called for each of them
handleStartFetch ==
    /\ bMode = "batch"
    /\ bPhase = "ready"
    /\ bStatus' = [r \in Repos |-> "pending"]
    /\ bPhase' = "running"
    /\ UNCHANGED <<bMode, bFails, bQueue, bWorkers, bCompleted>>
    /\ BatchKeeps

\* fetchSingleRepo, 29-35: the first lines
FetchSingleRepoBegins(r) ==
    /\ bMode = "batch"
    /\ bPhase = "running"
    /\ bStatus[r] = "pending"
    /\ bStatus' = [bStatus EXCEPT ![r] = "fetching"]
    /\ UNCHANGED <<bMode, bFails, bQueue, bWorkers, bCompleted, bPhase>>
    /\ BatchKeeps

\* fetchSingleRepo, 37-95: fetched, aggregated, saved
FetchSingleRepoDone(r) ==
    /\ bMode = "batch"
    /\ bPhase = "running"
    /\ bStatus[r] = "fetching"
    /\ r \notin bFails
    /\ bStatus' = [bStatus EXCEPT ![r] = "done"]
    /\ UNCHANGED <<bMode, bFails, bQueue, bWorkers, bCompleted, bPhase>>
    /\ BatchKeeps

\* a variant of the catch of fetchSingleRepo that ends the whole batch
FetchSingleRepoFailsAborting(r) ==
    /\ bMode = "batch"
    /\ bPhase = "running"
    /\ bStatus[r] = "fetching"
    /\ r \in bFails
    /\ bStatus' = [bStatus EXCEPT ![r] = "error"]
    /\ bPhase' = "complete"
    /\ UNCHANGED <<bMode, bFails, bQueue, bWorkers, bCompleted>>
    /\ BatchKeeps

\* fetchSingleRepo, 97-103: the catch
FetchSingleRepoFails(r) ==
    /\ bMode = "batch"
    /\ bPhase = "running"
    /\ bStatus[r] = "fetching"
    /\ r \in bFails
    /\ bStatus' = [bStatus EXCEPT ![r] = "error"]
    /\ UNCHANGED <<bMode, bFails, bQueue, bWorkers, bCompleted, bPhase>>
    /\ BatchKeeps

\* handleStartFetch, 118-121: Promise.allSettled has resolved
BatchSettles ==
    /\ bMode = "batch"
    /\ bPhase = "running"
    /\ \A r \in Repos : bStatus[r] \in {"done", "error"}
    /\ bPhase' = "complete"
    /\ UNCHANGED <<bMode, bFails, bStatus, bQueue, bWorkers, bCompleted>>
    /\ BatchKeeps

\* handleRefreshAll, App.jsx 387-476: the queue is filled and the workers
\* are started
handleRefreshAll ==
    /\ bMode = "refresh"
    /\ bPhase = "ready"
    /\ bStatus' = [r \in Repos |-> "pending"]
    /\ bQueue' = [i \in 1..MaxRepos |-> i]
    /\ bWorkers' = [w \in Workers |-> IdleWorker]
    /\ bCompleted' = 0
    /\ bPhase' = "running"
    /\ UNCHANGED <<bMode, bFails>>
    /\ BatchKeeps

\* worker, 461-468, and the first lines of refreshRepo, 410-413
WorkerTakes(w) ==
    /\ bMode = "refresh"
    /\ bPhase = "running"
    /\ bWorkers[w] = IdleWorker
    /\ bQueue # << >>
    /\ bWorkers' = [bWorkers EXCEPT ![w] = Head(bQueue)]
    /\ bQueue' = Tail(bQueue)
    /\ bStatus' = [bStatus EXCEPT ![Head(bQueue)] = "fetching"]
    /\ UNCHANGED <<bMode, bFails, bCompleted, bPhase>>
    /\ BatchKeeps

\* a variant of refreshRepo that counts the repository after the awaited
\* fetchData only, not in a finally block
RefreshRepoCountsSuccessOnly(w) ==
    /\ bMode = "refresh"
    /\ bPhase = "running"
    /\ bWorkers[w] \in Repos
    /\ bStatus' = [bStatus EXCEPT ![bWorkers[w]] =
                      IF bWorkers[w] \in bFails THEN "error" ELSE "done"]
    /\ bCompleted' = IF bWorkers[w] \in bFails THEN bCompleted ELSE bCompleted + 1
    /\ bWorkers' = [bWorkers EXCEPT ![w] = IdleWorker]
    /\ UNCHANGED <<bMode, bFails, bQueue, bPhase>>
    /\ BatchKeeps

\* refreshRepo, 415-458: fetchData has returned (it catches its own errors,
\* App.jsx 275-279), the finally block counts the repository
RefreshRepoReturns(w) ==
    /\ bMode = "refresh"
    /\ bPhase = "running"
    /\ bWorkers[w] \in Repos
    /\ bStatus' = [bStatus EXCEPT ![bWorkers[w]] =
                      IF bWorkers[w] \in bFails THEN "error" ELSE "done"]
    /\ bCompleted' = bCompleted + 1
    /\ bWorkers' = [bWorkers EXCEPT ![w] = IdleWorker]
    /\ UNCHANGED <<bMode, bFails, bQueue, bPhase>>
    /\ BatchKeeps

\* worker, 462: the queue is empty, the worker's promise resolves
WorkerExits(w) ==
    /\ bMode = "refresh"
    /\ bPhase = "running"
    /\ bWorkers[w] = IdleWorker
    /\ bQueue = << >>
    /\ bWorkers' = [bWorkers EXCEPT ![w] = ExitedWorker]
    /\ UNCHANGED <<bMode, bFails, bStatus, bQueue, bCompleted, bPhase>>
    /\ BatchKeeps

\* handleRefreshAll, 478-491: Promise.all(workers) has resolved
RefreshSettles ==
    /\ bMode = "refresh"
    /\ bPhase = "running"
    /\ \A w \in Workers : bWorkers[w] = ExitedWorker
    /\ bPhase' = "complete"
    /\ UNCHANGED <<bMode, bFails, bStatus, bQueue, bWorkers, bCompleted>>
    /\ BatchKeeps

BatchNext ==
    \/ handleStartFetch
    \/ \E r \in Repos : FetchSingleRepoBegins(r)
    \/ \E r \in Repos : FetchSingleRepoDone(r)
    \/ \E r \in Repos : FetchSingleRepoFails(r)
    \/ BatchSettles
    \/ handleRefreshAll
    \/ \E w \in Workers : WorkerTakes(w)
    \/ \E w \in Workers : RefreshRepoReturns(w)
    \/ \E w \in Workers : WorkerExits(w)
    \/ RefreshSettles

\* every continuation that is ready is run by the event loop
SpecBatch == BatchInit /\ [][BatchNext]_vars /\ WF_vars(BatchNext)

\* the batch is over and every repository has its own status: done if its
\* fetch did not fail, error if it did
BatchOutcome ==
    (bPhase = "complete") =>
        \A r \in Repos : bStatus[r] = (IF r \in bFails THEN "error" ELSE "done")

PersistedCursor(s, k) ==
    CASE k = "stars"   -> <<s.stars_cursor, s.stars_pagination_limited>>
      [] k = "forks"   -> <<s.forks_last_page, s.forks_pagination_limited>>
      [] k = "prs"     -> <<s.prs_last_page, s.prs_pagination_limited>>
      [] k = "issues"  -> <<s.issues_last_date>>
      [] k = "commits" -> <<s.commits_last_date>>

\* the step in which the harvester of kind k runs, its periodic saves included
HarvesterStep(k) ==
    /\ phase = "harvest"
    /\ ~results[k].done
    /\ results'[k].done

\* C21: the periodic saves of one kind's harvester leave the persisted cursor
\* and limited flag of every other kind as they were.
C21_SaveTouchesOwnKindOnly ==
    [][\A k \in Kinds :
          HarvesterStep(k) =>
              \A j \in Kinds \ {k} : PersistedCursor(store', j) = PersistedCursor(store, j)]_vars

(***************************************************************************)
(* calculateMonthlyMetrics, services/supabase.js 267-339.  A daily date is *)
(* a UTC calendar day 'YYYY-MM-DD'; new Date(day.date) is its UTC          *)
(* midnight, getFullYear() and getMonth() read it in the zone of the       *)
(* runtime, new Date(y, m + 1, 0) is the local midnight of the last day of *)
(* that month and toISOString() gives the UTC day of that instant.  The    *)
(* calendar is scaled: every month has MonthDays days, day 1 opens month 0.*)
(* A nullable number is a set: {} for null, {v} for v.  A percentage is    *)
(* held in hundredths (25.00 is 2500).                                     *)
(***************************************************************************)
MonthDays == 2        \* days of a calendar month
MaxRollDay == 4       \* daily dates 1..MaxRollDay
MaxRollLen == 3       \* most points of a daily series handed to the rollup

Null == {}
RollMetrics == {"stars", "forks", "issuesOpened", "issuesClosed",
                "prsOpened", "prsMerged", "contributors"}
RollCounts == {0, 200, 250}

MonthOfDay(d) == (d - 1) \div MonthDays
LastDayOfMonth(m) == (m + 1) * MonthDays

\* lines 274-277
MonthEndStr(date, zone) ==
    UtcDate(At(LastDayOfMonth(MonthOfDay(LocalDate(At(date, 0), zone))), 0) - zone)

\* lines 281-291
MonthEntry(day, zone) ==
    [monthEnd |-> MonthEndStr(day.date, zone), date |-> day.date,
     stars |-> day.totalStars, forks |-> day.totalForks,
     issuesOpened |-> day.totalIssuesOpened, issuesClosed |-> day.totalIssuesClosed,
     prsOpened |-> day.totalPRsOpened, prsMerged |-> day.totalPRsMerged,
     contributors |-> day.totalContributors]

\* monthlyData.has / .get / .set: an insertion-ordered Map keyed by monthEnd
MonthHas(map, key) == \E i \in 1..Len(map) : map[i].monthEnd = key
MonthGet(map, key) == map[CHOOSE i \in 1..Len(map) : map[i].monthEnd = key]
MonthSet(map, e) ==
    IF MonthHas(map, e.monthEnd)
    THEN [i \in 1..Len(map) |-> IF map[i].monthEnd = e.monthEnd THEN e ELSE map[i]]
    ELSE Append(map, e)

\* lines 273-292: the loop over dailyMetrics
RECURSIVE GroupByMonth(_, _, _)
GroupByMonth(dailyMetrics, zone, monthlyData) ==
    IF dailyMetrics = << >> THEN monthlyData
    ELSE GroupByMonth(Tail(dailyMetrics), zone,
            IF \/ ~MonthHas(monthlyData, MonthEndStr(Head(dailyMetrics).date, zone))
               \/ Head(dailyMetrics).date
                     > MonthGet(monthlyData, MonthEndStr(Head(dailyMetrics).date, zone)).date
            THEN MonthSet(monthlyData, MonthEntry(Head(dailyMetrics), zone))
            ELSE monthlyData)

\* lines 295-296: sort by monthEnd (the keys of a Map are distinct)
RECURSIVE InsertByMonthEnd(_, _)
InsertByMonthEnd(sorted, e) ==
    IF sorted = << >> THEN <<e>>
    ELSE IF e.monthEnd < Head(sorted).monthEnd THEN <<e>> \o sorted
    ELSE <<Head(sorted)>> \o InsertByMonthEnd(Tail(sorted), e)

RECURSIVE SortByMonthEnd(_)
SortByMonthEnd(q) ==
    IF q = << >> THEN << >>
    ELSE InsertByMonthEnd(SortByMonthEnd(Tail(q)), Head(q))

\* Math.round(n / d) for d > 0: the nearest integer, a half goes up
RoundDiv(n, d) == (2 * n + d) \div (2 * d)

\* a variant of calcChange that takes a previous value of 0 for no value
calcChangeZeroIsNull(current, previous) ==
    IF previous # Null /\ previous # {0}
    THEN {current - (CHOOSE v \in previous : TRUE)}
    ELSE Null

\* line 301
calcChange(current, previous) ==
    IF previous # Null THEN {current - (CHOOSE v \in previous : TRUE)} ELSE Null

\* lines 302-305
calcGrowthPct(current, previous) ==
    IF previous = Null \/ previous = {0} THEN Null
    ELSE {RoundDiv((current - (CHOOSE v \in previous : TRUE)) * 10000,
                   CHOOSE v \in previous : TRUE)}

\* prevMonth?.x ?? null, line 299
PrevValue(sortedMonths, index, metric) ==
    IF index > 1 THEN {sortedMonths[index - 1][metric]} ELSE Null

\* lines 298-338: xAtMonthEnd, xMomChange, xMomGrowthPct for every metric x
MonthlyPoints(sortedMonths) ==
    [index \in 1..Len(sortedMonths) |->
        [monthEnd |-> sortedMonths[index].monthEnd,
         AtMonthEnd |-> [x \in RollMetrics |-> sortedMonths[index][x]],
         MomChange |-> [x \in RollMetrics |->
             calcChange(sortedMonths[index][x], PrevValue(sortedMonths, index, x))],
         MomGrowthPct |-> [x \in RollMetrics |->
             calcGrowthPct(sortedMonths[index][x], PrevValue(sortedMonths, index, x))]]]

calculateMonthlyMetrics(dailyMetrics, zone) ==
    IF dailyMetrics = << >> THEN << >>
    ELSE MonthlyPoints(SortByMonthEnd(GroupByMonth(dailyMetrics, zone, << >>)))

\* daily series as the store and the aggregator give them: ascending dates
RollPoint(d, v) ==
    DailyPoint(d, v[1], v[2], v[2], v[1], Min(v[1], v[2]), v[2], Min(v[1], v[2]), Min(v[1], v[2]))

RECURSIVE RollSeries(_, _)
RollSeries(dates, vals) ==
    IF dates = {} THEN << >>
    ELSE <<RollPoint(CHOOSE d \in dates : \A e \in dates : d <= e,
                     vals[CHOOSE d \in dates : \A e \in dates : d <= e])>>
         \o RollSeries(dates \ {CHOOSE d \in dates : \A e \in dates : d <= e}, vals)

\* saveMonthlyMetrics 357-384: the row written for a monthly point
\* (updated_at, the time of the save, is left out)
MonthlyRow(m) ==
    [month_end |-> m.monthEnd, at_month_end |-> m.AtMonthEnd,
     mom_change |-> m.MomChange, mom_growth_pct |-> m.MomGrowthPct]

\* a variant of the save that inserts without deleting the rows of the
\* repository first: rows of months the new rollup does not have stay
saveMonthlyMetricsNoDelete(rows, monthlyMetrics) ==
    IF monthlyMetrics = << >> THEN rows
    ELSE SelectSeq(rows, LAMBDA row :
                      \A i \in 1..Len(monthlyMetrics) : monthlyMetrics[i].monthEnd # row.month_end)
         \o [i \in 1..Len(monthlyMetrics) |-> MonthlyRow(monthlyMetrics[i])]

\* saveMonthlyMetrics 343-396: nothing for an empty rollup, else the rows
\* of the repository are deleted and the new ones inserted
saveMonthlyMetrics(rows, monthlyMetrics) ==
    IF monthlyMetrics = << >> THEN rows
    ELSE [i \in 1..Len(monthlyMetrics) |-> MonthlyRow(monthlyMetrics[i])]

\* monthly rows a repository has from an earlier save: none, or those of a
\* series with other months and other values
PriorMonthlyRows ==
    { << >>,
      saveMonthlyMetrics(<< >>, calculateMonthlyMetrics(
          <<RollPoint(0, <<250, 200>>), RollPoint(MaxRollDay + MonthDays, <<200, 0>>)>>, 0)) }

RollInit ==
    /\ MergeIdle
    /\ AggIdle
    /\ SysIdle
    /\ PolIdle
    /\ BatchIdle
    /\ HarvIdle
    /\ rZone \in TimeZones
    /\ \E dates \in SUBSET (1..MaxRollDay) :
          /\ Cardinality(dates) <= MaxRollLen
          /\ \E vals \in [dates -> RollCounts \X RollCounts] :
                rDaily = RollSeries(dates, vals)
    /\ rMonthly = << >>
    /\ rPhase = "input"
    /\ rPrior \in PriorMonthlyRows
    /\ rStored = rPrior

CalculateMonthly ==
    /\ rPhase = "input"
    /\ rMonthly' = calculateMonthlyMetrics(rDaily, rZone)
    /\ rPhase' = "done"
    /\ UNCHANGED <<rDaily, rZone, rPrior, rStored>>
    /\ UNCHANGED <<mergeVars, aggVars, sysVars, polVars, batchVars, harvVars>>

\* saveRepoToCache 185-187: the rollup of the series it was called with is
\* saved.  Its callers pass the output of aggregateToDaily or of a merge
\* with it, which has at least the creation day.
SaveMonthly ==
    /\ rPhase = "done"
    /\ rDaily # << >>
    /\ rStored' = saveMonthlyMetrics(rStored, rMonthly)
    /\ rPhase' = "saved"
    /\ UNCHANGED <<rDaily, rZone, rMonthly, rPrior>>
    /\ UNCHANGED <<mergeVars, aggVars, sysVars, polVars, batchVars, harvVars>>

RollNext ==
    \/ CalculateMonthly
    \/ SaveMonthly

SpecRollup == RollInit /\ [][RollNext]_vars

\* the calendar months that have a daily point, and the latest point of one
MonthsPresent(dailyMetrics) ==
    { MonthOfDay(dailyMetrics[i].date) : i \in 1..Len(dailyMetrics) }

LatestOfMonth(dailyMetrics, m) ==
    dailyMetrics[CHOOSE i \in 1..Len(dailyMetrics) :
        /\ MonthOfDay(dailyMetrics[i].date) = m
        /\ \A j \in 1..Len(dailyMetrics) :
              MonthOfDay(dailyMetrics[j].date) = m => dailyMetrics[j].date <= dailyMetrics[i].date]

\* the month-end values of a monthly point are the counters of a daily point
SameCounters(point, day) ==
    point.AtMonthEnd = [x \in RollMetrics |-> MonthEntry(day, 0)[x]]

\* C22: the rollup has exactly one point per calendar month that has a daily
\* point, in ascending month order, and the month-end values of each are the
\* counters of the latest daily point of that month.
C22_OnePointPerMonth ==
    (rPhase = "done") =>
        /\ Len(rMonthly) = Cardinality(MonthsPresent(rDaily))
        /\ \A i \in 1..(Len(rMonthly) - 1) : rMonthly[i].monthEnd < rMonthly[i + 1].monthEnd
        /\ \A m \in MonthsPresent(rDaily) :
              \E i \in 1..Len(rMonthly) : SameCounters(rMonthly[i], LatestOfMonth(rDaily, m))

\* C23: for every metric and month of the rollup the percentage growth is
\* null exactly when there is no previous month or its month-end value is 0,
\* and the absolute change is null exactly for the first month and otherwise
\* current minus previous; from 200 to 250 the change is 50 and the growth
\* 25.00 per cent.
C23_MomChangeAndGrowth ==
    (rPhase = "done") =>
        \A i \in 1..Len(rMonthly) : \A x \in RollMetrics :
            /\ (rMonthly[i].MomGrowthPct[x] = Null)
                   <=> (i = 1 \/ rMonthly[i - 1].AtMonthEnd[x] = 0)
            /\ (rMonthly[i].MomChange[x] = Null) <=> (i = 1)
            /\ (i > 1) =>
                   rMonthly[i].MomChange[x]
                       = {rMonthly[i].AtMonthEnd[x] - rMonthly[i - 1].AtMonthEnd[x]}
            /\ (i > 1 /\ rMonthly[i - 1].AtMonthEnd[x] = 200 /\ rMonthly[i].AtMonthEnd[x] = 250) =>
                   /\ rMonthly[i].MomChange[x] = {50}
                   /\ rMonthly[i].MomGrowthPct[x] = {2500}

C23_Witness ==
    /\ rPhase = "done"
    /\ Len(rMonthly) = 2
    /\ rMonthly[1].AtMonthEnd["stars"] = 200
    /\ rMonthly[2].AtMonthEnd["stars"] = 250
    /\ rMonthly[2].MomGrowthPct["stars"] = {2500}
    /\ rMonthly[1].AtMonthEnd["forks"] = 0
    /\ rMonthly[2].MomChange["forks"] = {250}
    /\ rMonthly[2].MomGrowthPct["forks"] = Null

(***************************************************************************)
(* The merge of a date that both series have, of a date that one has, and  *)
(* of a decrease from one date to the next                                 *)
(***************************************************************************)
IndexOfDate(series, d) == CHOOSE i \in 1..Len(series) : series[i].date = d

PointOfDate(series, d) == series[IndexOfDate(series, d)]

\* the increment of counter c on date d within one series: its cumulative
\* value minus the cumulative value of the point before it
IncrementOn(series, d, c) ==
    IF IndexOfDate(series, d) > 1
    THEN series[IndexOfDate(series, d)][c] - series[IndexOfDate(series, d) - 1][c]
    ELSE series[IndexOfDate(series, d)][c]

AdditiveCounters == {"totalStars", "totalForks"}

\* C24: on a date that both series have, the merged stars and forks of that
\* day are the sum of the two sides' increments of that day, and the issue,
\* PR and contributor counters are the larger of the two sides' values.
C24_SameDateSumsIncrements ==
    (mOp = "merge") =>
        \A d \in DatesOf(mExisting) \cap DatesOf(mNew) :
            /\ \A c \in AdditiveCounters :
                  IncrementOn(mResult, d, c)
                      = IncrementOn(mExisting, d, c) + IncrementOn(mNew, d, c)
            /\ \A c \in CounterNames \ AdditiveCounters :
                  PointOfDate(mResult, d)[c]
                      = Max(PointOfDate(mExisting, d)[c], PointOfDate(mNew, d)[c])

\* C25: the merged series has exactly one point per date of the union of
\* the two date sets, in ascending order, and a date that only one series
\* has keeps every counter of that series' point.
C25_UnionKeptVerbatim ==
    (mOp = "merge") =>
        /\ DatesOf(mResult) = DatesOf(mExisting) \cup DatesOf(mNew)
        /\ \A i \in 1..(Len(mResult) - 1) : mResult[i].date < mResult[i + 1].date
        /\ \A d \in DatesOf(mExisting) \ DatesOf(mNew) :
              PointOfDate(mResult, d) = PointOfDate(mExisting, d)
        /\ \A d \in DatesOf(mNew) \ DatesOf(mExisting) :
              PointOfDate(mResult, d) = PointOfDate(mNew, d)

\* lines 733-797 hold no console.warn and the return value is the series
\* alone: the MergeInconsistency warnings of a call
MergeWarnings(existingMetrics, newMetrics) == {}

\* lines 764-765: the series the increments are re-derived from
Combined(existingMetrics, newMetrics) ==
    SortByDate(AddNew(AddExisting(<<>>, existingMetrics), newMetrics))

\* C26: wherever a counter falls from one date to the next in the series
\* that is re-derived, the merged series has an increment of zero there and
\* a MergeInconsistency warning names that date and counter.
C26_NegativeIncrementClampedAndFlagged ==
    (mOp = "merge") =>
        \A i \in 2..Len(Combined(mExisting, mNew)) : \A c \in CounterNames :
            (Combined(mExisting, mNew)[i][c] < Combined(mExisting, mNew)[i - 1][c]) =>
                /\ Len(mResult) = Len(Combined(mExisting, mNew))
                /\ mResult[i][c] = mResult[i - 1][c]
                /\ <<mResult[i].date, c>> \in MergeWarnings(mExisting, mNew)

\* the clamp alone, for the two counters that are re-derived
C26_ClampOnly ==
    (mOp = "merge") =>
        \A i \in 2..Len(Combined(mExisting, mNew)) : \A c \in AdditiveCounters :
            (Combined(mExisting, mNew)[i][c] < Combined(mExisting, mNew)[i - 1][c]) =>
                mResult[i][c] = mResult[i - 1][c]

(***************************************************************************)
(* The aggregator: first-seen contributors, events out of range, the       *)
(* independent counters of issues and pull requests, the derived counters  *)
(***************************************************************************)
\* the days of the output and the increment of a counter on one of them
IncrementAt(series, i, c) ==
    IF i > 1 THEN series[i][c] - series[i - 1][c] ELSE series[i][c]

\* the in-range days on which an author has a commit
CommitDays(commits, days, a) ==
    { UtcDate(commits[i].date) : i \in { j \in 1..Len(commits) :
          commits[j].author = a /\ UtcDate(commits[j].date) \in days } }

\* the authors whose earliest in-range commit day is d
FirstCommitOn(commits, days, d) ==
    { a \in Authors : /\ d \in CommitDays(commits, days, a)
                      /\ \A e \in CommitDays(commits, days, a) : d <= e }

\* C27: each commit author is counted as a new contributor exactly once, on
\* the earliest day of the output on which the author has a commit, in
\* whatever order the commits are supplied.
C27_FirstSeenOnEarliestDate ==
    (aPhase = "done") =>
        \A i \in 1..Len(aDaily) :
            IncrementAt(aDaily, i, "totalContributors")
                = Cardinality(FirstCommitOn(aEvents.commits, DatesOf(aDaily), aDaily[i].date))

\* every author with a commit on a day of the output is counted once
C27_CountedOnce ==
    (aPhase = "done" /\ aDaily # << >>) =>
        aDaily[Len(aDaily)].totalContributors
            = Cardinality({ a \in Authors : CommitDays(aEvents.commits, DatesOf(aDaily), a) # {} })

\* the events of a list whose time field is set and lies on a UTC day from
\* the creation day to the as-of day, and those that lie outside
InRange(t) == UtcDate(aEnv.createdAt) <= UtcDate(t) /\ UtcDate(t) <= UtcDate(aEnv.now)

CountInRange(events, field) ==
    Cardinality({ i \in 1..Len(events) : events[i][field] # 0 /\ InRange(events[i][field]) })

OutOfRangeEvents ==
    { <<"stargazers", i>> : i \in { j \in 1..Len(aEvents.stargazers) :
                                      ~InRange(aEvents.stargazers[j].starredAt) } }
    \cup { <<"forks", i>> : i \in { j \in 1..Len(aEvents.forks) :
                                      ~InRange(aEvents.forks[j].createdAt) } }
    \cup { <<"issues", i>> : i \in { j \in 1..Len(aEvents.issues) :
                \/ ~InRange(aEvents.issues[j].createdAt)
                \/ aEvents.issues[j].closedAt # 0 /\ ~InRange(aEvents.issues[j].closedAt) } }
    \cup { <<"prs", i>> : i \in { j \in 1..Len(aEvents.prs) :
                \/ ~InRange(aEvents.prs[j].createdAt)
                \/ aEvents.prs[j].closedAt # 0 /\ ~InRange(aEvents.prs[j].closedAt)
                \/ aEvents.prs[j].mergedAt # 0 /\ ~InRange(aEvents.prs[j].mergedAt) } }
    \cup { <<"commits", i>> : i \in { j \in 1..Len(aEvents.commits) :
                                      ~InRange(aEvents.commits[j].date) } }

\* dataAggregator.js holds no console call and aggregateToDaily returns the
\* series alone: the warnings of a call
AggregatorWarnings(stargazers, forks, issues, prs, commits) == {}

\* no counter of the last day counts more than the events in range
OnlyInRangeCounted ==
    (aPhase = "done" /\ aDaily # << >>) =>
        /\ aDaily[Len(aDaily)].totalStars <= CountInRange(aEvents.stargazers, "starredAt")
        /\ aDaily[Len(aDaily)].totalForks <= CountInRange(aEvents.forks, "createdAt")
        /\ aDaily[Len(aDaily)].totalIssuesOpened <= CountInRange(aEvents.issues, "createdAt")
        /\ aDaily[Len(aDaily)].totalIssuesClosed <= CountInRange(aEvents.issues, "closedAt")
        /\ aDaily[Len(aDaily)].totalPRsOpened <= CountInRange(aEvents.prs, "createdAt")
        /\ aDaily[Len(aDaily)].totalPRsClosed <= CountInRange(aEvents.prs, "closedAt")
        /\ aDaily[Len(aDaily)].totalPRsMerged <= CountInRange(aEvents.prs, "mergedAt")
        /\ aDaily[Len(aDaily)].totalContributors
              <= Cardinality({ a \in Authors : \E i \in 1..Len(aEvents.commits) :
                                 aEvents.commits[i].author = a /\ InRange(aEvents.commits[i].date) })

\* C28: an event dated before the creation day or after the as-of day adds
\* to no counter of any day of the output, and a warning is emitted for it.
C28_OutOfRangeDiscardedWithWarning ==
    /\ OnlyInRangeCounted
    /\ (aPhase = "done") =>
          \A e \in OutOfRangeEvents :
              e \in AggregatorWarnings(aEvents.stargazers, aEvents.forks, aEvents.issues,
                                       aEvents.prs, aEvents.commits)

\* the events of a list whose time field is set and falls on UTC day d
EventsOn(events, field, d) ==
    { i \in 1..Len(events) : events[i][field] # 0 /\ events[i][field] \div HoursPerDay = d }

\* C29: on every day of the output the issues opened and closed and the
\* pull requests opened, closed and merged each grow by the number of
\* issues or pull requests with that date in that field, each field counted
\* on its own: a pull request closed and merged on one day adds to both.
C29_IndependentCounters ==
    (aPhase = "done") =>
        \A i \in 1..Len(aDaily) :
            /\ IncrementAt(aDaily, i, "totalIssuesOpened")
                  = Cardinality(EventsOn(aEvents.issues, "createdAt", aDaily[i].date))
            /\ IncrementAt(aDaily, i, "totalIssuesClosed")
                  = Cardinality(EventsOn(aEvents.issues, "closedAt", aDaily[i].date))
            /\ IncrementAt(aDaily, i, "totalPRsOpened")
                  = Cardinality(EventsOn(aEvents.prs, "createdAt", aDaily[i].date))
            /\ IncrementAt(aDaily, i, "totalPRsClosed")
                  = Cardinality(EventsOn(aEvents.prs, "closedAt", aDaily[i].date))
            /\ IncrementAt(aDaily, i, "totalPRsMerged")
                  = Cardinality(EventsOn(aEvents.prs, "mergedAt", aDaily[i].date))

\* a pull request closed and merged on one day of the output, an issue
\* closed on a day of the output
C29_Witness ==
    /\ aPhase = "done"
    /\ \E i \in 1..Len(aDaily) :
          /\ \E j \in 1..Len(aEvents.prs) :
                /\ aEvents.prs[j].mergedAt # 0
                /\ aEvents.prs[j].mergedAt = aEvents.prs[j].closedAt
                /\ UtcDate(aEvents.prs[j].mergedAt) = aDaily[i].date
          /\ IncrementAt(aDaily, i, "totalPRsClosed") = 1
          /\ IncrementAt(aDaily, i, "totalPRsMerged") = 1
    /\ \E i \in 1..Len(aDaily) : IncrementAt(aDaily, i, "totalIssuesClosed") = 1

DerivedCounters == {"openIssues", "openPRs"}

\* C30: on every day of the output openIssues is totalIssuesOpened minus
\* totalIssuesClosed and openPRs is totalPRsOpened minus totalPRsClosed, and
\* neither is a field of the rows that are persisted or of a merged series.
C30_OpenCountersDerived ==
    (aPhase = "done") =>
        /\ \A i \in 1..Len(aDaily) :
              /\ aDaily[i].openIssues = aDaily[i].totalIssuesOpened - aDaily[i].totalIssuesClosed
              /\ aDaily[i].openPRs = aDaily[i].totalPRsOpened - aDaily[i].totalPRsClosed
              /\ DOMAIN ToRow(aDaily[i]) \cap DerivedCounters = {}
        /\ \A i \in 1..Len(mergeDailyMetrics(aDaily, aDaily)) :
              DOMAIN mergeDailyMetrics(aDaily, aDaily)[i] \cap DerivedCounters = {}

\* two issues opened, one of them closed: one is open on the last day
C30_Witness ==
    /\ aPhase = "done"
    /\ aDaily # << >>
    /\ aDaily[Len(aDaily)].totalIssuesOpened = 2
    /\ aDaily[Len(aDaily)].totalIssuesClosed = 1
    /\ aDaily[Len(aDaily)].openIssues = 1

\* C31: a harvester that has observed a remaining quota below its low-water
\* mark (10 for the paged harvesters, 50 for the stars harvester) waits
\* before its next request, and the wait does not end before the reset.
C31_LowQuotaWaitsUntilReset ==
    /\ (pOutcome.op = "paged-check" /\ pHeaders.hasReset /\ pHeaders.remaining < 10) =>
          /\ pOutcome.waited
          /\ pClock + pOutcome.wait >= pHeaders.reset * 1000
    /\ (pOutcome.op = "stars-check" /\ pHeaders.remaining < 50) =>
          /\ pOutcome.waited
          /\ pClock + pOutcome.wait >= pHeaders.reset * 1000

C31_Witness ==
    /\ pOutcome.op = "paged-check"
    /\ pHeaders.hasReset
    /\ pHeaders.remaining = 9
    /\ pHeaders.reset * 1000 > pClock
    /\ pOutcome.waited
    /\ pOutcome.wait = pHeaders.reset * 1000 - pClock + 1000

\* C32: when the repository metadata cannot be fetched the run ends and the
\* cache is as it was before the run: the repository record (cursors, flags,
\* inProgress, last-run timestamp) and the daily series.
C32_MetadataFailureLeavesCache ==
    (phase = "idle" /\ hist.ended = "threw") => (store = hist.startStore)

\* C33: after a save the monthly rows of the repository are those of the
\* rollup of the daily series that was saved, whatever rows it had before:
\* the same series saved over different prior rows gives the same rows.
C33_MonthlyRowsDependOnSeriesOnly ==
    (rPhase = "saved") =>
        /\ Len(rStored) = Len(calculateMonthlyMetrics(rDaily, rZone))
        /\ \A i \in 1..Len(rStored) :
              /\ rStored[i].month_end = calculateMonthlyMetrics(rDaily, rZone)[i].monthEnd
              /\ rStored[i].at_month_end = calculateMonthlyMetrics(rDaily, rZone)[i].AtMonthEnd
              /\ rStored[i].mom_change = calculateMonthlyMetrics(rDaily, rZone)[i].MomChange
              /\ rStored[i].mom_growth_pct = calculateMonthlyMetrics(rDaily, rZone)[i].MomGrowthPct

\* a save over prior rows of other months and values
C33_Witness ==
    /\ rPhase = "saved"
    /\ rPrior # << >>
    /\ rStored # rPrior
    /\ Len(rStored) < Len(rPrior)
    /\ \A i \in 1..Len(rStored) : \A j \in 1..Len(rPrior) :
          rStored[i].month_end # rPrior[j].month_end

\* a resume run has ended that started from a cursor bag in which stars is
\* complete and forks or pull requests are limited
ResumedWithStarsComplete ==
    /\ phase = "idle"
    /\ strategy = "resume"
    /\ hist.ended \in {"complete", "limited", "failed"}
    /\ hist.startStore.stars_cursor = 0
    /\ ~hist.startStore.stars_pagination_limited
    /\ hist.startStore.forks_pagination_limited \/ hist.startStore.prs_pagination_limited

\* C34: a resume run from a cursor bag in which stars is complete and only
\* forks or pull requests are limited does not request the stars from the
\* beginning, and every date that was in the cache keeps its totalStars.
C34_CompleteStarsNotReharvested ==
    ResumedWithStarsComplete =>
        /\ \A i \in 1..Len(results["stars"].requests) : results["stars"].requests[i] # 0
        /\ \A i \in 1..Len(hist.startStore.metrics) :
              \E j \in 1..Len(store.metrics) :
                  /\ store.metrics[j].date = hist.startStore.metrics[i].date
                  /\ store.metrics[j].totalStars = hist.startStore.metrics[i].totalStars

\* ---------------------------------------------------------------------------
\* Date cursors of Issues and Commits across runs
\* (githubApi.js 739-862, 1036-1153; App.jsx 233-264; supabase.js 616-621)
\* ---------------------------------------------------------------------------

\* a date cursor step: a set cursor stays set and does not move backward
CursorKeeps(before, after) == (before # 0) => (after >= before)

DateCursorsKeep ==
    /\ CursorKeeps(store.issues_last_date, store'.issues_last_date)
    /\ CursorKeeps(store.commits_last_date, store'.commits_last_date)

\* C35: across any sequence of runs the persisted date cursor of Issues and
\* of Commits never moves backward and is never reset to null once it is set,
\* also after a run that harvested no new item of that kind.
C35_DateCursorsMonotone == [][DateCursorsKeep]_vars

\* ---------------------------------------------------------------------------
\* The slices a harvester hands to onSave
\* (githubApi.js 467-477, 500-539, 700-729)
\* ---------------------------------------------------------------------------

\* the slices [from, to) of successive saves follow one another from the
\* first item to the n-th, none of them empty
SlicesPartition(saves, n) ==
    /\ (n > 0) = (saves # << >>)
    /\ \A i \in 1..Len(saves) :
          /\ saves[i].from < saves[i].to
          /\ saves[i].from = IF i = 1 THEN 0 ELSE saves[i - 1].to
    /\ (saves # << >>) => (saves[Len(saves)].to = n)

\* C36: within one harvester run every harvested item is delivered to the
\* periodic-save sink exactly once: the slices passed to successive onSave
\* calls are disjoint and together cover all items, on every exit path,
\* the rate-limit exit of the Stars harvester included.
C36_EveryItemSavedOnce ==
    \A k \in Kinds :
        results[k].done => SlicesPartition(results[k].saves, Len(ItemsOf(k, results[k])))

(***************************************************************************)
(* One harvester, iteration by iteration (githubApi.js 398-547, 617-737,   *)
(* 739-862, 864-982, 1036-1154).  The upstream is up (every request        *)
(* succeeds), flaky (a request comes to any outcome, MaxHarvFaults times   *)
(* at most) or down (every request is rejected with an error that is       *)
(* neither a rate-limit nor a pagination-ceiling error).                   *)
(***************************************************************************)
MaxHarvFaults == 2
\* page numbers from MaxHarvPage on are kept as MaxHarvPage, and the list of
\* the requests issued is kept up to MaxHarvRequests entries
MaxHarvPage == 7
MaxHarvRequests == 8

HarvModes == {"up", "flaky", "down"}
HarvTimes == {FirstRunAt, At(3, 13)}

\* stargazers as the harvester pushes them (user, starredAt), 447-452
HarvStars(n) == [i \in 1..n |-> [user |-> i, starredAt |-> At(1, 12)]]

HarvCollections(k) ==
    CASE k = "stars" -> {HarvStars(n) : n \in {0, 3, 5}}
      [] k = "forks" -> {VisibleForks(t) : t \in HarvTimes}
      [] k = "issues" -> {IssuesEndpoint(t, 0) : t \in HarvTimes}
      [] k = "prs" -> {VisiblePRs(t) : t \in HarvTimes}
      [] k = "commits" -> {CommitsEndpoint(t, 0) : t \in HarvTimes}

\* startCursor of the stars harvester, startPage of forks and pull requests
HarvStarts(k) ==
    CASE k = "stars" -> {0, 2}
      [] k \in {"forks", "prs"} -> {1, 2}
      [] OTHER -> {1}

HarvStart(k, start) ==
    IF k = "stars" THEN StarsStart(start) ELSE PagedStart(k, start)

\* what a request can come to, with `left` faults left in a flaky upstream
HarvOutcomes(mode, left) ==
    CASE mode = "up" -> {"ok"}
      [] mode = "down" -> {"transient"}
      [] OTHER -> IF left > 0 THEN Outcomes ELSE {"ok"}

\* pageInfo.endCursor of the page that follows cursor
PageEndCursor(list, cursor) ==
    IF cursor >= Len(list) THEN 0 ELSE Min(cursor + perPage, Len(list))

HarvFaults(mode, before, new) == IF mode = "flaky" THEN before + new ELSE 0

FailedIn(o) == Cardinality({i \in DOMAIN o : o[i] # "ok"})

CapPages(st) ==
    [st EXCEPT !.currentPage = Min(@, MaxHarvPage),
               !.requests = SubSeq(@, 1, Min(Len(@), MaxHarvRequests))]

HarvInit ==
    /\ MergeIdle
    /\ AggIdle
    /\ SysIdle
    /\ PolIdle
    /\ BatchIdle
    /\ RollIdle
    /\ \E k \in Kinds, mode \in HarvModes :
          \E list \in HarvCollections(k), start \in HarvStarts(k) :
             /\ hRun = [kind |-> k, mode |-> mode, list |-> list, start |-> start]
             /\ hSt = HarvStart(k, start)
             /\ hLast = [out |-> "none", faults |-> 0, cursorBefore |-> start,
                         lastCursorBefore |-> start, endCursor |-> start,
                         parity |-> 0]
    /\ hPhase = "loop"

HarvKeeps == UNCHANGED <<mergeVars, aggVars, sysVars, polVars, batchVars, rollVars>>

\* one iteration of the stars harvester's loop
StarsRequest ==
    /\ hPhase = "loop"
    /\ hRun.kind = "stars"
    /\ StarsContinues(hSt)
    /\ \E out \in HarvOutcomes(hRun.mode, MaxHarvFaults - hLast.faults) :
          /\ hSt' = StarsStep(hSt, hRun.list, out)
          /\ hLast' = [out |-> out,
                       faults |-> HarvFaults(hRun.mode, hLast.faults,
                                             IF out = "ok" THEN 0 ELSE 1),
                       cursorBefore |-> hSt.cursor,
                       lastCursorBefore |-> hSt.lastCursor,
                       endCursor |-> IF out = "ok"
                                     THEN PageEndCursor(hRun.list, hSt.cursor)
                                     ELSE hLast.endCursor,
                       parity |-> (hLast.parity + 1) % 2]
    /\ UNCHANGED <<hRun, hPhase>>
    /\ HarvKeeps

\* one iteration of a paged harvester's loop: a batch of PARALLEL_REQUESTS pages
PagedBatch ==
    /\ hPhase = "loop"
    /\ hRun.kind \in PagedKinds
    /\ hSt.hasMore
    /\ \E o \in [0..(PARALLEL_REQUESTS - 1) ->
                    HarvOutcomes(hRun.mode, MaxHarvFaults - hLast.faults)] :
          /\ hRun.mode = "flaky" => hLast.faults + FailedIn(o) <= MaxHarvFaults
          /\ hSt' = CapPages(Batch(hRun.kind, hSt, hRun.list,
                                   [n \in hSt.currentPage..
                                          (hSt.currentPage + PARALLEL_REQUESTS - 1) |->
                                       o[n - hSt.currentPage]]))
          /\ hLast' = [hLast EXCEPT !.out = "batch",
                                    !.faults = HarvFaults(hRun.mode, @, FailedIn(o)),
                                    !.parity = (@ + 1) % 2]
    /\ UNCHANGED <<hRun, hPhase>>
    /\ HarvKeeps

\* the loop is left: the final save and the return
HarvesterReturns ==
    /\ hPhase = "loop"
    /\ IF hRun.kind = "stars" THEN ~StarsContinues(hSt) ELSE ~hSt.hasMore
    /\ hSt' = IF hRun.kind = "stars" THEN StarsFinalSave(hSt)
                                     ELSE FinalSave(hRun.kind, hSt)
    /\ hPhase' = "returned"
    /\ UNCHANGED <<hRun, hLast>>
    /\ HarvKeeps

HarvNext ==
    \/ StarsRequest
    \/ PagedBatch
    \/ HarvesterReturns

SpecHarvest == HarvInit /\ [][HarvNext]_vars /\ WF_vars(HarvNext)

\* C37: every harvester run terminates, also when the upstream answers every
\* page request with an error that is neither a rate-limit nor a ceiling
\* error: the harvester issues a bounded number of requests and returns.
C37_HarvesterTerminates == <>(hPhase = "returned")

\* the stargazers collected so far are the upstream's, from the start cursor on
CollectedFromStart ==
    hSt.stargazers = SubSeq(hRun.list, hRun.start + 1,
                            hRun.start + Len(hSt.stargazers))

\* the last request of the stars harvester was rejected
LastRequestFailed == hLast.out \in (Outcomes \ {"ok"})

\* C38: at every point of a Stars harvest the collected items are exactly
\* the concatenation, in order and without duplicates, of the pages from the
\* start cursor up to lastCursor; lastCursor is the end cursor of the last
\* page whose items were collected; a failed request never advances the
\* cursor.
C38_StarsCursorTracksItems ==
    (hRun.kind = "stars") =>
        /\ CollectedFromStart
        /\ (hSt.stargazers # << >>) =>
              (hSt.lastCursor = hRun.start + Len(hSt.stargazers))
        /\ hSt.lastCursor = hLast.endCursor
        /\ LastRequestFailed =>
              /\ hSt.cursor = hLast.cursorBefore
              /\ hSt.lastCursor = hLast.lastCursorBefore

C38_Witness ==
    /\ hRun.kind = "stars"
    /\ hRun.mode = "flaky"
    /\ hRun.start = 2
    /\ LastRequestFailed
    /\ Len(hSt.stargazers) = 2
    /\ Len(hSt.requests) = 2
    /\ hSt.cursor = 4
    /\ hSt.lastCursor = 4

\* ---------------------------------------------------------------------------
\* Refresh All: the queue, the workers, the completed counter (App.jsx 387-478)
\* ---------------------------------------------------------------------------

\* the repositories whose refreshRepo call is in flight
InFlight == {bWorkers[w] : w \in Workers} \cap Repos

\* in how many places repository r is: waiting in the queue, held by a
\* worker, refreshed
InQueue(r) == Cardinality({i \in 1..Len(bQueue) : bQueue[i] = r})
HeldBy(r) == Cardinality({w \in Workers : bWorkers[w] = r})
Refreshed(r) == IF bStatus[r] \in {"done", "error"} THEN 1 ELSE 0

\* C39: in Refresh All each cached repository is taken from the queue by
\* exactly one worker, at most CONCURRENT_REFRESHES repository refreshes are
\* in flight at any time, and when the refresh finishes the completed
\* counter equals the number of repositories.
C39_RefreshAllQueueDiscipline ==
    (bMode = "refresh" /\ bPhase \in {"running", "complete"}) =>
        /\ \A r \in Repos : InQueue(r) + HeldBy(r) + Refreshed(r) = 1
        /\ \A r \in Repos : (bStatus[r] = "fetching") = (HeldBy(r) = 1)
        /\ Cardinality(InFlight) <= CONCURRENT_REFRESHES
        /\ bCompleted = Cardinality({r \in Repos : Refreshed(r) = 1})
        /\ (bPhase = "complete") => (bCompleted = MaxRepos)

C39_Witness ==
    /\ bMode = "refresh"
    /\ bPhase = "complete"
    /\ bCompleted = MaxRepos
    /\ bFails # {}
    /\ bQueue = << >>

====
